---- MODULE Spec2Model ----
(***************************************************************************)
(* Concurrency and resilience primitives of the repository: the counting   *)
(* semaphore, the sliding-window rate limiter, the LRU cache with TTL, the *)
(* circuit breaker and the throttle.  Each primitive is a state machine    *)
(* over its own closure variables; the primitives share nothing but the    *)
(* clock, so each has a specification of its own in which the others rest  *)
(* in their freshly constructed state.                                     *)
(***************************************************************************)
EXTENDS Integers, Sequences, FiniteSets, TLC

VARIABLES
    now,                \* the clock: Date.now() / the injected now()
    \* ---- semaphore (createSemaphore) ----
    maxConcurrency,     \* const maxConcurrency
    activeCount,        \* let activeCount
    queue,              \* const queue: the waiters, oldest first (caller ids)
    semPc,              \* each caller's position
    semKind,            \* how each caller entered: "acquire" or "run"
    releaseCalls,       \* how often each caller invoked its release callback
    arrivals,           \* callers in the order of their acquire() calls
    grants,             \* callers in the order they were granted a permit
    everQueued,         \* the callers whose acquire() took the slow path
    runOutcome,         \* how each run(fn) settled: "ok" (fn's result) or "err" (fn's failure)
    fnOutcome,          \* how the fn of each run(fn) settled
    \* ---- sliding-window rate limiter (createSlidingWindowRateLimiter) ----
    maxRequests,        \* const maxRequests
    windowMs,           \* const windowMs
    timestamps,         \* the front-truncating array version's log
    buf,                \* the head-index version's buffer
    head,               \* the head-index version's head (0-based, as in the source)
    rlAccepted,         \* the time of every accepted consume() since construction or reset()
    rlRes,              \* the last operation and what the head-index version returned
    rlResNaive,         \* what the array version returned for it
    \* ---- LRU cache (createLruCache) ----
    maxSize,            \* const maxSize
    ttlMs,              \* const ttlMs
    map,                \* const map: the entries in the Map's iteration order, oldest first
    lruRes,             \* the last operation and what it returned (for set: found is
                        \* whether the key was stored before, the source's `existing`)
    lruRef,             \* the reference cache: a map of values and expiry times plus a
                        \* recency list, and its answer to the last operation
    \* ---- circuit breaker (createCircuitBreaker) ----
    failureThreshold,   \* const failureThreshold
    resetTimeoutMs,     \* const resetTimeoutMs
    state,              \* let state
    consecutiveFailures, \* let consecutiveFailures
    openedAt,           \* let openedAt
    cbPc,               \* each call slot: "idle", or "inflight" while its fn is pending
    cbAdmitted,         \* the stored state under which an in-flight call's fn was invoked
    cbRes,              \* the last breaker operation, its outcome, the stored state
                        \* it found (from) and how the call's fn settled (fn)
    cbFailRun,          \* failures since the last success, reset or closing (up to the threshold)
    cbOpenedClock,      \* the clock when the breaker last went to open
    \* ---- throttle (throttle) ----
    interval,           \* const interval
    timer,              \* let timer: unset, or the pending setTimeout and when it is due
    lastCallTime,       \* let lastCallTime
    pendingArgs,        \* let pendingArgs (NoArgs for undefined)
    thrLast,            \* the most recent invocation of fn: when, with what, by which path
    thrPrev,            \* the invocation of fn before that
    thrRes,             \* the last throttle operation, its argument, whether it invoked fn
                        \* and the payload that was pending when it began (had)
    wakes,              \* how many setTimeout callbacks the host holds: scheduled and
                        \* neither run nor cleared
    lastArgs            \* the arguments of the most recent throttled call

semVars == <<maxConcurrency, activeCount, queue, semPc, semKind, releaseCalls,
             arrivals, grants, everQueued, runOutcome, fnOutcome>>

rlVars == <<maxRequests, windowMs, timestamps, buf, head, rlAccepted, rlRes, rlResNaive>>

lruVars == <<maxSize, ttlMs, map, lruRes, lruRef>>

cbVars == <<failureThreshold, resetTimeoutMs, state, consecutiveFailures, openedAt,
            cbPc, cbAdmitted, cbRes, cbFailRun, cbOpenedClock>>

thrVars == <<interval, timer, lastCallTime, pendingArgs, thrLast, thrPrev, thrRes, wakes,
            lastArgs>>

vars == <<now, semVars, rlVars, lruVars, cbVars, thrVars>>

\* ------------------------------------------------------------------ bounds
NumCallers == 4
MaxConcurrencyArg == 2
MaxTime == 4
MaxRequestsArg == 2
MaxWindowArg == 2
MaxSizeArg == 2
LruMaxTime == 3
MaxTtlArg == 2
NumSlots == 2
MaxThresholdArg == 2
MaxResetArg == 2
MaxFailures == 4
NumArgs == 2
MaxIntervalArg == 2
MaxStart == 2
MaxReleaseCalls == 2

\* ----------------------------------------------------------------- helpers
Max(a, b) == IF a >= b THEN a ELSE b

Min(a, b) == IF a <= b THEN a ELSE b

\* Math.floor of a number given in halves (x2 = 2 * x): 3 is 1.5, -1 is -0.5.
FloorHalves(x2) == IF x2 >= 0 THEN x2 \div 2 ELSE -((1 - x2) \div 2)

\* ================================================================ semaphore
Callers == 1..NumCallers

\* The values createSemaphore is constructed with, in halves: -0.5 .. MaxConcurrencyArg + 0.5
ConcurrencyArgs == (-1)..(2 * MaxConcurrencyArg + 1)

\* const maxConcurrency = Math.max(1, Math.floor(concurrency))
ClampConcurrency(c2) == Max(1, FloorHalves(c2))

\* createSemaphore(concurrency), concurrency given in halves.
createSemaphore(concurrency2) ==
    /\ maxConcurrency = ClampConcurrency(concurrency2)
    /\ activeCount = 0
    /\ queue = <<>>
    /\ semPc = [c \in Callers |-> "idle"]
    /\ semKind = [c \in Callers |-> "none"]
    /\ releaseCalls = [c \in Callers |-> 0]
    /\ arrivals = <<>>
    /\ grants = <<>>
    /\ everQueued = {}
    /\ runOutcome = [c \in Callers |-> "none"]
    /\ fnOutcome = [c \in Callers |-> "none"]

SemInit == \E c2 \in ConcurrencyArgs : createSemaphore(c2)

\* A semaphore nobody uses: createSemaphore(1).
SemIdle == createSemaphore(2)

\* function release(): the permit goes to the head waiter, or back to the pool.
\* pcAfter is the callers' positions once the releasing caller has moved on.
release_lifo(pcAfter) ==
    IF queue # <<>>
    THEN /\ activeCount' = (activeCount - 1) + 1
         /\ queue' = SubSeq(queue, 1, Len(queue) - 1)
         /\ semPc' = [pcAfter EXCEPT ![queue[Len(queue)]] = "granted"]
         /\ grants' = Append(grants, queue[Len(queue)])
    ELSE /\ activeCount' = activeCount - 1
         /\ UNCHANGED <<queue, grants>>
         /\ semPc' = pcAfter

\* A release that pops the head waiter and never resolves it.
release_drops_head(pcAfter) ==
    IF queue # <<>>
    THEN /\ activeCount' = (activeCount - 1) + 1
         /\ queue' = Tail(queue)
         /\ semPc' = pcAfter
         /\ UNCHANGED grants
    ELSE /\ activeCount' = activeCount - 1
         /\ UNCHANGED <<queue, grants>>
         /\ semPc' = pcAfter

\* A release that also gives the permit back when it wakes the head waiter.
release_handoff_frees(pcAfter) ==
    IF queue # <<>>
    THEN /\ activeCount' = activeCount - 1
         /\ queue' = Tail(queue)
         /\ semPc' = [pcAfter EXCEPT ![Head(queue)] = "granted"]
         /\ grants' = Append(grants, Head(queue))
    ELSE /\ activeCount' = activeCount - 1
         /\ UNCHANGED <<queue, grants>>
         /\ semPc' = pcAfter

release(pcAfter) ==
    IF queue # <<>>
    THEN /\ activeCount' = (activeCount - 1) + 1
         /\ queue' = Tail(queue)
         /\ semPc' = [pcAfter EXCEPT ![Head(queue)] = "granted"]
         /\ grants' = Append(grants, Head(queue))
    ELSE /\ activeCount' = activeCount - 1
         /\ UNCHANGED <<queue, grants>>
         /\ semPc' = pcAfter

\* function acquire(), called by caller c (callers are numbered in the order of
\* their acquire() calls); kind says whether run(fn) or the caller itself made it.
acquire_off_by_one(c, kind) ==
    /\ semPc[c] = "idle"
    /\ c = Len(arrivals) + 1
    /\ arrivals' = Append(arrivals, c)
    /\ semKind' = [semKind EXCEPT ![c] = kind]
    /\ IF activeCount <= maxConcurrency
       THEN /\ activeCount' = activeCount + 1
            /\ semPc' = [semPc EXCEPT ![c] = "granted"]
            /\ grants' = Append(grants, c)
            /\ UNCHANGED <<queue, everQueued>>
       ELSE /\ queue' = Append(queue, c)
            /\ semPc' = [semPc EXCEPT ![c] = "waiting"]
            /\ everQueued' = everQueued \cup {c}
            /\ UNCHANGED <<activeCount, grants>>
    /\ UNCHANGED <<now, maxConcurrency, releaseCalls, runOutcome, fnOutcome>>

acquire(c, kind) ==
    /\ semPc[c] = "idle"
    /\ c = Len(arrivals) + 1
    /\ arrivals' = Append(arrivals, c)
    /\ semKind' = [semKind EXCEPT ![c] = kind]
    /\ IF activeCount < maxConcurrency
       THEN /\ activeCount' = activeCount + 1
            /\ semPc' = [semPc EXCEPT ![c] = "granted"]
            /\ grants' = Append(grants, c)
            /\ UNCHANGED <<queue, everQueued>>
       ELSE /\ queue' = Append(queue, c)
            /\ semPc' = [semPc EXCEPT ![c] = "waiting"]
            /\ everQueued' = everQueued \cup {c}
            /\ UNCHANGED <<activeCount, grants>>
    /\ UNCHANGED <<now, maxConcurrency, releaseCalls, runOutcome, fnOutcome>>

\* A caller of acquire() invokes the release callback it was given, for the first time.
ReleaseCallback(c) ==
    /\ semKind[c] = "acquire"
    /\ semPc[c] = "granted"
    /\ releaseCalls[c] = 0
    /\ releaseCalls' = [releaseCalls EXCEPT ![c] = 1]
    /\ release([semPc EXCEPT ![c] = "done"])
    /\ UNCHANGED <<now, maxConcurrency, semKind, arrivals, everQueued, runOutcome,
                   fnOutcome>>

\* run(fn), after `await acquire()`: the permit is held and fn is invoked.
RunInvokeFn(c) ==
    /\ semKind[c] = "run"
    /\ semPc[c] = "granted"
    /\ semPc' = [semPc EXCEPT ![c] = "running"]
    /\ UNCHANGED <<now, maxConcurrency, activeCount, queue, semKind, releaseCalls,
                   arrivals, grants, everQueued, runOutcome, fnOutcome>>

\* run(fn), after `await fn()`: fn resolved ("ok") or rejected ("err"); the finally
\* block calls releaseFn() and run settles the way fn did.
run_leaks_on_error(c, outcome) ==
    /\ semKind[c] = "run"
    /\ semPc[c] = "running"
    /\ fnOutcome' = [fnOutcome EXCEPT ![c] = outcome]
    /\ runOutcome' = [runOutcome EXCEPT ![c] = outcome]
    /\ IF outcome = "ok"
       THEN /\ releaseCalls' = [releaseCalls EXCEPT ![c] = @ + 1]
            /\ release([semPc EXCEPT ![c] = "done"])
       ELSE /\ semPc' = [semPc EXCEPT ![c] = "done"]
            /\ UNCHANGED <<releaseCalls, activeCount, queue, grants>>
    /\ UNCHANGED <<now, maxConcurrency, semKind, arrivals, everQueued>>

\* A run that resolves whatever fn did.
run_swallows_failure(c, outcome) ==
    /\ semKind[c] = "run"
    /\ semPc[c] = "running"
    /\ fnOutcome' = [fnOutcome EXCEPT ![c] = outcome]
    /\ runOutcome' = [runOutcome EXCEPT ![c] = "ok"]
    /\ releaseCalls' = [releaseCalls EXCEPT ![c] = @ + 1]
    /\ release([semPc EXCEPT ![c] = "done"])
    /\ UNCHANGED <<now, maxConcurrency, semKind, arrivals, everQueued>>

RunSettle(c, outcome) ==
    /\ semKind[c] = "run"
    /\ semPc[c] = "running"
    /\ fnOutcome' = [fnOutcome EXCEPT ![c] = outcome]
    /\ runOutcome' = [runOutcome EXCEPT ![c] = outcome]
    /\ releaseCalls' = [releaseCalls EXCEPT ![c] = @ + 1]
    /\ release([semPc EXCEPT ![c] = "done"])
    /\ UNCHANGED <<now, maxConcurrency, semKind, arrivals, everQueued>>

\* A caller of acquire() invokes the release callback it was given once more,
\* after it has given its permit back: every acquire() resolves with the one
\* shared function release, which does not remember whether it was called.
ReleaseAgain(c) ==
    /\ semKind[c] = "acquire"
    /\ semPc[c] = "done"
    /\ releaseCalls[c] >= 1
    /\ releaseCalls[c] < MaxReleaseCalls
    /\ releaseCalls' = [releaseCalls EXCEPT ![c] = @ + 1]
    /\ release(semPc)
    /\ UNCHANGED <<now, maxConcurrency, semKind, arrivals, everQueued, runOutcome,
                   fnOutcome>>

SemAcquire == \E c \in Callers : acquire(c, "acquire")

SemRun == \E c \in Callers : acquire(c, "run")

SemRelease == \E c \in Callers : ReleaseCallback(c)

SemRunInvokeFn == \E c \in Callers : RunInvokeFn(c)

SemRunSettle == \E c \in Callers, outcome \in {"ok", "err"} : RunSettle(c, outcome)

SemReleaseAgain == \E c \in Callers : ReleaseAgain(c)

\* =============================================================== the clock
\* Time passes: the clock is non-decreasing (and stops at limit).
Tick(limit) ==
    /\ now < limit
    /\ now' = now + 1

\* ============================================================= rate limiter
\* The values the limiter is constructed with, in halves.
MaxRequestsArgs == 0..(2 * MaxRequestsArg + 1)

WindowArgs == 0..(2 * MaxWindowArg + 1)

NoResult == [op |-> "none", at |-> 0, allowed |-> FALSE, retryAfterMs |-> 0,
             remaining |-> 0, count |-> 0, liveBefore |-> 0]

\* createSlidingWindowRateLimiter(params), both versions side by side.
RlInit(maxRequests2, windowMs2) ==
    /\ maxRequests = Max(1, FloorHalves(maxRequests2))
    /\ windowMs = Max(1, FloorHalves(windowMs2))
    /\ timestamps = <<>>
    /\ buf = <<>>
    /\ head = 0
    /\ rlAccepted = <<>>
    /\ rlRes = NoResult
    /\ rlResNaive = NoResult

\* The array version's prune(nowMs): shift while the first timestamp is below the cutoff.
\* A prune that shifts at most one timestamp.
pruneNaive_single_shift(ts, nowMs) ==
    IF Len(ts) > 0 /\ ts[1] < nowMs - windowMs
    THEN Tail(ts)
    ELSE ts

RECURSIVE pruneNaive(_, _)
pruneNaive(ts, nowMs) ==
    IF Len(ts) > 0 /\ ts[1] < nowMs - windowMs
    THEN pruneNaive(Tail(ts), nowMs)
    ELSE ts

\* The head-index version's prune(nowMs), first loop: advance head past the
\* timestamps below the cutoff (b[h + 1] is the source's buf[head]).
RECURSIVE advanceHead_inclusive(_, _, _)
advanceHead_inclusive(b, h, nowMs) ==
    IF h < Len(b) /\ b[h + 1] <= nowMs - windowMs
    THEN advanceHead_inclusive(b, h + 1, nowMs)
    ELSE h

RECURSIVE advanceHead(_, _, _)
advanceHead(b, h, nowMs) ==
    IF h < Len(b) /\ b[h + 1] < nowMs - windowMs
    THEN advanceHead(b, h + 1, nowMs)
    ELSE h

\* A prune whose compaction slices one element too far.
prune_slices_past_head(b, h, nowMs) ==
    LET h2 == advanceHead(b, h, nowMs)
    IN  IF h2 > 0 /\ 2 * h2 > Len(b)
        THEN [buf |-> SubSeq(b, h2 + 2, Len(b)), head |-> 0]
        ELSE [buf |-> b, head |-> h2]

\* prune(nowMs) of the head-index version: the buffer and head it leaves.
\* Compaction: head > 0 && head > buf.length / 2.
prune(b, h, nowMs) ==
    LET h2 == advanceHead(b, h, nowMs)
    IN  IF h2 > 0 /\ 2 * h2 > Len(b)
        THEN [buf |-> SubSeq(b, h2 + 1, Len(b)), head |-> 0]
        ELSE [buf |-> b, head |-> h2]

\* function activeCount() of the head-index version.
rlActiveCount(b, h) == Len(b) - h

\* How many of the accepted events lie at or after the cutoff of nowMs.
LiveAccepted(nowMs) ==
    Cardinality({i \in DOMAIN rlAccepted : rlAccepted[i] >= nowMs - windowMs})

\* consume(), both versions.
consume_denied_extends_block ==
    LET nowMs == now
        p == prune(buf, head, nowMs)
        ts == pruneNaive(timestamps, nowMs)
        denied == rlActiveCount(p.buf, p.head) >= maxRequests
        deniedNaive == Len(ts) >= maxRequests
    IN  /\ IF denied
           THEN /\ buf' = Append(p.buf, nowMs)
                /\ head' = p.head
                /\ rlRes' = [op |-> "consume", at |-> nowMs, allowed |-> FALSE,
                             retryAfterMs |-> Max(0, p.buf[p.head + 1] + windowMs - nowMs),
                             remaining |-> 0,
                             count |-> rlActiveCount(p.buf, p.head),
                             liveBefore |-> LiveAccepted(nowMs)]
                /\ UNCHANGED rlAccepted
           ELSE /\ buf' = Append(p.buf, nowMs)
                /\ head' = p.head
                /\ rlRes' = [op |-> "consume", at |-> nowMs, allowed |-> TRUE,
                             retryAfterMs |-> 0,
                             remaining |-> Max(0, maxRequests - rlActiveCount(buf', head')),
                             count |-> rlActiveCount(buf', head'),
                             liveBefore |-> LiveAccepted(nowMs)]
                /\ rlAccepted' = Append(rlAccepted, nowMs)
        /\ IF deniedNaive
           THEN /\ timestamps' = Append(ts, nowMs)
                /\ rlResNaive' = [op |-> "consume", at |-> nowMs, allowed |-> FALSE,
                                  retryAfterMs |-> Max(0, ts[1] + windowMs - nowMs),
                                  remaining |-> 0, count |-> Len(ts),
                                  liveBefore |-> LiveAccepted(nowMs)]
           ELSE /\ timestamps' = Append(ts, nowMs)
                /\ rlResNaive' = [op |-> "consume", at |-> nowMs, allowed |-> TRUE,
                                  retryAfterMs |-> 0,
                                  remaining |-> Max(0, maxRequests - Len(timestamps')),
                                  count |-> Len(timestamps'),
                                  liveBefore |-> LiveAccepted(nowMs)]
        /\ UNCHANGED <<now, maxRequests, windowMs>>

consume ==
    LET nowMs == now
        p == prune(buf, head, nowMs)
        ts == pruneNaive(timestamps, nowMs)
        denied == rlActiveCount(p.buf, p.head) >= maxRequests
        deniedNaive == Len(ts) >= maxRequests
    IN  /\ IF denied
           THEN /\ buf' = p.buf
                /\ head' = p.head
                /\ rlRes' = [op |-> "consume", at |-> nowMs, allowed |-> FALSE,
                             retryAfterMs |-> Max(0, p.buf[p.head + 1] + windowMs - nowMs),
                             remaining |-> 0,
                             count |-> rlActiveCount(p.buf, p.head),
                             liveBefore |-> LiveAccepted(nowMs)]
                /\ UNCHANGED rlAccepted
           ELSE /\ buf' = Append(p.buf, nowMs)
                /\ head' = p.head
                /\ rlRes' = [op |-> "consume", at |-> nowMs, allowed |-> TRUE,
                             retryAfterMs |-> 0,
                             remaining |-> Max(0, maxRequests - rlActiveCount(buf', head')),
                             count |-> rlActiveCount(buf', head'),
                             liveBefore |-> LiveAccepted(nowMs)]
                /\ rlAccepted' = Append(rlAccepted, nowMs)
        /\ IF deniedNaive
           THEN /\ timestamps' = ts
                /\ rlResNaive' = [op |-> "consume", at |-> nowMs, allowed |-> FALSE,
                                  retryAfterMs |-> Max(0, ts[1] + windowMs - nowMs),
                                  remaining |-> 0, count |-> Len(ts),
                                  liveBefore |-> LiveAccepted(nowMs)]
           ELSE /\ timestamps' = Append(ts, nowMs)
                /\ rlResNaive' = [op |-> "consume", at |-> nowMs, allowed |-> TRUE,
                                  retryAfterMs |-> 0,
                                  remaining |-> Max(0, maxRequests - Len(timestamps')),
                                  count |-> Len(timestamps'),
                                  liveBefore |-> LiveAccepted(nowMs)]
        /\ UNCHANGED <<now, maxRequests, windowMs>>

\* count(), both versions: prune, then the live count.
count ==
    LET nowMs == now
        p == prune(buf, head, nowMs)
        ts == pruneNaive(timestamps, nowMs)
    IN  /\ buf' = p.buf
        /\ head' = p.head
        /\ timestamps' = ts
        /\ rlRes' = [NoResult EXCEPT !.op = "count", !.at = nowMs,
                                     !.count = rlActiveCount(p.buf, p.head),
                                     !.liveBefore = LiveAccepted(nowMs)]
        /\ rlResNaive' = [NoResult EXCEPT !.op = "count", !.at = nowMs,
                                          !.count = Len(ts),
                                          !.liveBefore = LiveAccepted(nowMs)]
        /\ UNCHANGED <<now, maxRequests, windowMs, rlAccepted>>

\* reset(), both versions.
rlReset_keeps_head ==
    /\ buf' = <<>>
    /\ head' = head
    /\ timestamps' = <<>>
    /\ rlAccepted' = <<>>
    /\ rlRes' = [NoResult EXCEPT !.op = "reset", !.at = now]
    /\ rlResNaive' = [NoResult EXCEPT !.op = "reset", !.at = now]
    /\ UNCHANGED <<now, maxRequests, windowMs>>

rlReset ==
    /\ buf' = <<>>
    /\ head' = 0
    /\ timestamps' = <<>>
    /\ rlAccepted' = <<>>
    /\ rlRes' = [NoResult EXCEPT !.op = "reset", !.at = now]
    /\ rlResNaive' = [NoResult EXCEPT !.op = "reset", !.at = now]
    /\ UNCHANGED <<now, maxRequests, windowMs>>

\* ================================================================ LRU cache
\* The keys and values the cache is used with.
Keys == {"a", "b", "c"}

Values == {"x", "y"}

\* What get returns for a missing key: undefined.
Undefined == "undefined"

NoKey == "none"

\* options.maxSize and options.ttlMs, in halves; ttlMs may also be omitted.
MaxSizeArgs == (-1)..(2 * MaxSizeArg + 1)

TtlOmitted == [given |-> FALSE, halves |-> 0]

TtlArgs == {TtlOmitted} \cup {[given |-> TRUE, halves |-> h] : h \in (-1)..(2 * MaxTtlArg + 1)}

\* The reference cache when empty (victim: the entry its last set pushed out).
NoVictim == [key |-> NoKey, exp |-> 0]

RefEmpty == [val |-> [k \in Keys |-> Undefined], exp |-> [k \in Keys |-> 0],
             order |-> <<>>, value |-> Undefined, found |-> FALSE, victim |-> NoVictim]

\* createLruCache(options)
createLruCache(maxSize2, ttlOpt) ==
    /\ maxSize = Max(1, FloorHalves(maxSize2))
    /\ ttlMs = IF ttlOpt.given /\ ttlOpt.halves > 0 THEN FloorHalves(ttlOpt.halves) ELSE 0
    /\ map = <<>>
    /\ lruRes = [op |-> "none", key |-> NoKey, value |-> Undefined, found |-> FALSE]
    /\ lruRef = RefEmpty

\* Map.prototype.has / get / delete / set on the sequence of entries.
mapHas(m, key) == \E i \in DOMAIN m : m[i].key = key

mapGet(m, key) == m[CHOOSE i \in DOMAIN m : m[i].key = key]

mapDelete(m, key) ==
    LET Other(e) == e.key # key
    IN  SelectSeq(m, Other)

\* A key already present keeps its place in the iteration order; a new key goes last.
mapSet(m, key, entry) ==
    IF mapHas(m, key)
    THEN [i \in DOMAIN m |-> IF m[i].key = key THEN entry ELSE m[i]]
    ELSE Append(m, entry)

\* function isExpired(entry)
isExpired_late(entry) == entry.expiresAt > 0 /\ now > entry.expiresAt

isExpired(entry) == entry.expiresAt > 0 /\ now >= entry.expiresAt

\* function touch(key, entry): the map after it.
touch_in_place(m, key, entry) == mapSet(m, key, entry)

touch(m, key, entry) == mapSet(mapDelete(m, key), key, entry)

\* An evictOldest that removes an expired entry when there is one.
evictOldest_expired_first(m) ==
    IF m = <<>>
    THEN m
    ELSE IF \E i \in DOMAIN m : isExpired(m[i])
         THEN mapDelete(m, m[CHOOSE i \in DOMAIN m :
                                 /\ isExpired(m[i])
                                 /\ \A j \in DOMAIN m : isExpired(m[j]) => i <= j].key)
         ELSE mapDelete(m, m[1].key)

\* function evictOldest(): the map after it.
evictOldest_newest(m) == IF m # <<>> THEN mapDelete(m, m[Len(m)].key) ELSE m

evictOldest(m) == IF m # <<>> THEN mapDelete(m, m[1].key) ELSE m

\* while (map.size > maxSize) evictOldest()
RECURSIVE evictWhileOver(_)
evictWhileOver(m) == IF Len(m) > maxSize THEN evictWhileOver(evictOldest(m)) ELSE m

get(key) ==
    /\ IF ~mapHas(map, key)
       THEN /\ lruRes' = [op |-> "get", key |-> key, value |-> Undefined, found |-> FALSE]
            /\ UNCHANGED map
       ELSE LET entry == mapGet(map, key)
            IN  IF isExpired(entry)
                THEN /\ map' = mapDelete(map, key)
                     /\ lruRes' = [op |-> "get", key |-> key, value |-> Undefined,
                                   found |-> FALSE]
                ELSE /\ map' = touch(map, key, entry)
                     /\ lruRes' = [op |-> "get", key |-> key, value |-> entry.value,
                                   found |-> TRUE]
    /\ UNCHANGED <<now, maxSize, ttlMs>>

\* A set that makes room before it inserts, and only when the key is new.
set_checks_before_insert(key, value) ==
    LET room == IF ~mapHas(map, key) /\ Len(map) > maxSize THEN evictOldest(map) ELSE map
        expiresAt == IF ttlMs > 0 THEN now + ttlMs ELSE 0
    IN  /\ map' = mapSet(mapDelete(room, key), key,
                         [key |-> key, value |-> value, expiresAt |-> expiresAt])
        /\ lruRes' = [op |-> "set", key |-> key, value |-> value,
                      found |-> mapHas(map, key)]
        /\ UNCHANGED <<now, maxSize, ttlMs>>

set(key, value) ==
    LET removed == IF mapHas(map, key) THEN mapDelete(map, key) ELSE map
        expiresAt == IF ttlMs > 0 THEN now + ttlMs ELSE 0
        inserted == mapSet(removed, key,
                           [key |-> key, value |-> value, expiresAt |-> expiresAt])
    IN  /\ map' = evictWhileOver(inserted)
        /\ lruRes' = [op |-> "set", key |-> key, value |-> value,
                      found |-> mapHas(map, key)]
        /\ UNCHANGED <<now, maxSize, ttlMs>>

\* A has that promotes the key it finds, as get does.
has_promotes(key) ==
    /\ IF ~mapHas(map, key)
       THEN /\ lruRes' = [op |-> "has", key |-> key, value |-> Undefined, found |-> FALSE]
            /\ UNCHANGED map
       ELSE IF isExpired(mapGet(map, key))
            THEN /\ map' = mapDelete(map, key)
                 /\ lruRes' = [op |-> "has", key |-> key, value |-> Undefined,
                               found |-> FALSE]
            ELSE /\ map' = touch(map, key, mapGet(map, key))
                 /\ lruRes' = [op |-> "has", key |-> key, value |-> Undefined,
                               found |-> TRUE]
    /\ UNCHANGED <<now, maxSize, ttlMs>>

has(key) ==
    /\ IF ~mapHas(map, key)
       THEN /\ lruRes' = [op |-> "has", key |-> key, value |-> Undefined, found |-> FALSE]
            /\ UNCHANGED map
       ELSE IF isExpired(mapGet(map, key))
            THEN /\ map' = mapDelete(map, key)
                 /\ lruRes' = [op |-> "has", key |-> key, value |-> Undefined,
                               found |-> FALSE]
            ELSE /\ UNCHANGED map
                 /\ lruRes' = [op |-> "has", key |-> key, value |-> Undefined,
                               found |-> TRUE]
    /\ UNCHANGED <<now, maxSize, ttlMs>>

\* delete(key) returns Map.delete's answer: whether the key was stored.
delete_keeps_entry(key) ==
    /\ map' = map
    /\ lruRes' = [op |-> "delete", key |-> key, value |-> Undefined,
                  found |-> mapHas(map, key)]
    /\ UNCHANGED <<now, maxSize, ttlMs>>

delete(key) ==
    /\ map' = mapDelete(map, key)
    /\ lruRes' = [op |-> "delete", key |-> key, value |-> Undefined,
                  found |-> mapHas(map, key)]
    /\ UNCHANGED <<now, maxSize, ttlMs>>

clear ==
    /\ map' = <<>>
    /\ lruRes' = [op |-> "clear", key |-> NoKey, value |-> Undefined, found |-> FALSE]
    /\ UNCHANGED <<now, maxSize, ttlMs>>

\* size() and keys(): reads.
size == Len(map)

keys == [i \in DOMAIN map |-> map[i].key]

\* ---- the reference cache: what each operation does to it and what it answers
\* A recency list without key k.
Without(order, k) ==
    LET Other(x) == x # k
    IN  SelectSeq(order, Other)

\* The reference forgets key k.
RefDrop(r, k) ==
    [r EXCEPT !.val[k] = Undefined, !.exp[k] = 0, !.order = Without(r.order, k)]

\* Key k is stored in the reference and its time to live has run out.
RefExpired(r, k) == r.val[k] # Undefined /\ r.exp[k] > 0 /\ now >= r.exp[k]

\* get: a stored, unexpired key is answered and becomes the most recently used.
RefGet(r, k) ==
    IF r.val[k] = Undefined
    THEN [r EXCEPT !.value = Undefined, !.found = FALSE, !.victim = NoVictim]
    ELSE IF RefExpired(r, k)
         THEN [RefDrop(r, k) EXCEPT !.value = Undefined, !.found = FALSE, !.victim = NoVictim]
         ELSE [r EXCEPT !.order = Append(Without(r.order, k), k),
                        !.value = r.val[k], !.found = TRUE, !.victim = NoVictim]

\* set: the key gets the value and a fresh expiry and becomes the most recently
\* used; if more than maxSize keys are then stored, the least recently used goes.
RefSet(r, k, v) ==
    LET stored == [r EXCEPT !.val[k] = v,
                            !.exp[k] = IF ttlMs > 0 THEN now + ttlMs ELSE 0,
                            !.order = Append(Without(r.order, k), k),
                            !.value = v, !.found = r.val[k] # Undefined,
                            !.victim = NoVictim]
    IN  IF Len(stored.order) > maxSize
        THEN [RefDrop(stored, Head(stored.order)) EXCEPT !.victim = [key |-> Head(stored.order),
                                                          exp |-> stored.exp[Head(stored.order)]]]
        ELSE stored

\* has: answers like get; recency is left alone.
RefHas(r, k) ==
    IF r.val[k] = Undefined
    THEN [r EXCEPT !.value = Undefined, !.found = FALSE, !.victim = NoVictim]
    ELSE IF RefExpired(r, k)
         THEN [RefDrop(r, k) EXCEPT !.value = Undefined, !.found = FALSE, !.victim = NoVictim]
         ELSE [r EXCEPT !.value = Undefined, !.found = TRUE, !.victim = NoVictim]

RefDelete(r, k) ==
    [RefDrop(r, k) EXCEPT !.value = Undefined, !.found = r.val[k] # Undefined,
                          !.victim = NoVictim]

LruGet == \E key \in Keys : get(key) /\ lruRef' = RefGet(lruRef, key)

LruSet == \E key \in Keys, value \in Values : set(key, value) /\ lruRef' = RefSet(lruRef, key, value)

LruHas == \E key \in Keys : has(key) /\ lruRef' = RefHas(lruRef, key)

LruDelete == \E key \in Keys : delete(key) /\ lruRef' = RefDelete(lruRef, key)

LruClear == clear /\ lruRef' = RefEmpty

\* ========================================================== circuit breaker
Slots == 1..NumSlots

\* options.failureThreshold and options.resetTimeoutMs, in halves.
ThresholdArgs == (-1)..(2 * MaxThresholdArg + 1)

ResetArgs == (-1)..(2 * MaxResetArg + 1)

CbNoResult == [op |-> "none", outcome |-> "none", retryAfterMs |-> 0, at |-> 0,
               from |-> "none", fn |-> "none"]

\* createCircuitBreaker(options)
createCircuitBreaker(failureThreshold2, resetTimeoutMs2) ==
    /\ failureThreshold = Max(1, FloorHalves(failureThreshold2))
    /\ resetTimeoutMs = Max(0, FloorHalves(resetTimeoutMs2))
    /\ state = "closed"
    /\ consecutiveFailures = 0
    /\ openedAt = 0
    /\ cbPc = [s \in Slots |-> "idle"]
    /\ cbAdmitted = [s \in Slots |-> "none"]
    /\ cbRes = CbNoResult
    /\ cbFailRun = 0
    /\ cbOpenedClock = 0

\* function transitionToOpen()
transitionToOpen_keeps_openedAt ==
    /\ state' = "open"
    /\ openedAt' = openedAt
    /\ cbOpenedClock' = now

transitionToOpen ==
    /\ state' = "open"
    /\ openedAt' = now
    /\ cbOpenedClock' = now

\* function transitionToClosed()
transitionToClosed_keeps_failures ==
    /\ state' = "closed"
    /\ consecutiveFailures' = consecutiveFailures
    /\ openedAt' = 0

transitionToClosed ==
    /\ state' = "closed"
    /\ consecutiveFailures' = 0
    /\ openedAt' = 0

\* function shouldTransitionToHalfOpen()
shouldTransitionToHalfOpen_ignores_openedAt == state = "open" /\ now >= resetTimeoutMs

shouldTransitionToHalfOpen == state = "open" /\ now - openedAt >= resetTimeoutMs

\* call(fn) up to `await fn()`: resolve the lazy open -> half-open transition, then
\* reject with CircuitOpenError or invoke fn (slot s then waits for fn to settle).
callEnter(s) ==
    LET resolved == IF shouldTransitionToHalfOpen THEN "half-open" ELSE state
    IN  /\ cbPc[s] = "idle"
        /\ state' = resolved
        /\ IF resolved = "open"
           THEN /\ cbRes' = [op |-> "call", outcome |-> "rejected",
                             retryAfterMs |-> Max(0, resetTimeoutMs - (now - openedAt)),
                             at |-> now, from |-> state, fn |-> "none"]
                /\ UNCHANGED <<cbPc, cbAdmitted>>
           ELSE /\ cbRes' = [op |-> "call", outcome |-> "admitted", retryAfterMs |-> 0,
                             at |-> now, from |-> state, fn |-> "none"]
                /\ cbPc' = [cbPc EXCEPT ![s] = "inflight"]
                /\ cbAdmitted' = [cbAdmitted EXCEPT ![s] = resolved]
        /\ UNCHANGED <<now, failureThreshold, resetTimeoutMs, consecutiveFailures,
                       openedAt, cbFailRun, cbOpenedClock>>

\* call(fn) after `await fn()`: fn resolved ("ok") or rejected ("err").
callSettle_threshold_exclusive(s, outcome) ==
    /\ cbPc[s] = "inflight"
    /\ outcome = "err" => consecutiveFailures < MaxFailures
    /\ cbPc' = [cbPc EXCEPT ![s] = "idle"]
    /\ cbAdmitted' = [cbAdmitted EXCEPT ![s] = "none"]
    /\ cbRes' = [op |-> "settle", outcome |-> outcome, retryAfterMs |-> 0, at |-> now,
                 from |-> state, fn |-> outcome]
    /\ IF outcome = "ok"
       THEN /\ IF state = "half-open"
               THEN transitionToClosed
               ELSE /\ consecutiveFailures' = 0
                    /\ UNCHANGED <<state, openedAt>>
            /\ cbFailRun' = 0
            /\ UNCHANGED cbOpenedClock
       ELSE /\ IF state = "half-open"
               THEN /\ transitionToOpen
                    /\ UNCHANGED consecutiveFailures
               ELSE /\ consecutiveFailures' = consecutiveFailures + 1
                    /\ IF consecutiveFailures' > failureThreshold
                       THEN transitionToOpen
                       ELSE UNCHANGED <<state, openedAt, cbOpenedClock>>
            /\ cbFailRun' = Min(cbFailRun + 1, failureThreshold)
    /\ UNCHANGED <<now, failureThreshold, resetTimeoutMs>>

\* A call whose failure in half-open leaves the breaker half-open.
callSettle_halfopen_failure_ignored(s, outcome) ==
    /\ cbPc[s] = "inflight"
    /\ outcome = "err" => consecutiveFailures < MaxFailures
    /\ cbPc' = [cbPc EXCEPT ![s] = "idle"]
    /\ cbAdmitted' = [cbAdmitted EXCEPT ![s] = "none"]
    /\ cbRes' = [op |-> "settle", outcome |-> outcome, retryAfterMs |-> 0, at |-> now,
                 from |-> state, fn |-> outcome]
    /\ IF outcome = "ok"
       THEN /\ IF state = "half-open"
               THEN transitionToClosed
               ELSE /\ consecutiveFailures' = 0
                    /\ UNCHANGED <<state, openedAt>>
            /\ cbFailRun' = 0
            /\ UNCHANGED cbOpenedClock
       ELSE /\ IF state = "half-open"
               THEN UNCHANGED <<state, openedAt, cbOpenedClock, consecutiveFailures>>
               ELSE /\ consecutiveFailures' = consecutiveFailures + 1
                    /\ IF consecutiveFailures' >= failureThreshold
                       THEN transitionToOpen
                       ELSE UNCHANGED <<state, openedAt, cbOpenedClock>>
            /\ cbFailRun' = Min(cbFailRun + 1, failureThreshold)
    /\ UNCHANGED <<now, failureThreshold, resetTimeoutMs>>

callSettle(s, outcome) ==
    /\ cbPc[s] = "inflight"
    /\ outcome = "err" => consecutiveFailures < MaxFailures
    /\ cbPc' = [cbPc EXCEPT ![s] = "idle"]
    /\ cbAdmitted' = [cbAdmitted EXCEPT ![s] = "none"]
    /\ cbRes' = [op |-> "settle", outcome |-> outcome, retryAfterMs |-> 0, at |-> now,
                 from |-> state, fn |-> outcome]
    /\ IF outcome = "ok"
       THEN /\ IF state = "half-open"
               THEN transitionToClosed
               ELSE /\ consecutiveFailures' = 0
                    /\ UNCHANGED <<state, openedAt>>
            /\ cbFailRun' = 0
            /\ UNCHANGED cbOpenedClock
       ELSE /\ IF state = "half-open"
               THEN /\ transitionToOpen
                    /\ UNCHANGED consecutiveFailures
               ELSE /\ consecutiveFailures' = consecutiveFailures + 1
                    /\ IF consecutiveFailures' >= failureThreshold
                       THEN transitionToOpen
                       ELSE UNCHANGED <<state, openedAt, cbOpenedClock>>
            /\ cbFailRun' = Min(cbFailRun + 1, failureThreshold)
    /\ UNCHANGED <<now, failureThreshold, resetTimeoutMs>>

\* state(): a read that applies the lazy transition without storing it.
State_stored == state

State == IF shouldTransitionToHalfOpen THEN "half-open" ELSE state

\* A caller invokes state() and gets its answer.
StateRead ==
    /\ cbRes' = [op |-> "state", outcome |-> State, retryAfterMs |-> 0, at |-> now,
                 from |-> state, fn |-> "none"]
    /\ UNCHANGED <<now, failureThreshold, resetTimeoutMs, state, consecutiveFailures,
                   openedAt, cbPc, cbAdmitted, cbFailRun, cbOpenedClock>>

\* failures()
failures == consecutiveFailures

\* A reset that closes the breaker and leaves the failure count.
cbReset_keeps_failures ==
    /\ state' = "closed"
    /\ openedAt' = 0
    /\ UNCHANGED consecutiveFailures
    /\ cbRes' = [CbNoResult EXCEPT !.op = "reset", !.at = now, !.from = state]
    /\ cbFailRun' = 0
    /\ UNCHANGED <<now, failureThreshold, resetTimeoutMs, cbPc, cbAdmitted, cbOpenedClock>>

\* reset()
cbReset ==
    /\ transitionToClosed
    /\ cbRes' = [CbNoResult EXCEPT !.op = "reset", !.at = now, !.from = state]
    /\ cbFailRun' = 0
    /\ UNCHANGED <<now, failureThreshold, resetTimeoutMs, cbPc, cbAdmitted, cbOpenedClock>>

CbCall == \E s \in Slots : callEnter(s)

CbSettle == \E s \in Slots, outcome \in {"ok", "err"} : callSettle(s, outcome)

\* ================================================================= throttle
\* The argument lists the throttled function is called with.
Args == 1..NumArgs

\* pendingArgs === undefined
NoArgs == 0

\* timer === undefined
NoTimer == [set |-> FALSE, due |-> 0]

NoInvocation == [t |-> 0, args |-> NoArgs, via |-> "none"]

\* intervalMs, in halves.
IntervalArgs == (-1)..(2 * MaxIntervalArg + 1)

\* clearTimeout(timer): the host forgets the callback `timer` refers to, if any.
Cleared(w) == IF timer.set THEN w - 1 ELSE w

\* throttle(fn, intervalMs)
throttle(intervalMs2) ==
    /\ interval = Max(0, FloorHalves(intervalMs2))
    /\ timer = NoTimer
    /\ lastCallTime = 0
    /\ pendingArgs = NoArgs
    /\ thrLast = NoInvocation
    /\ thrPrev = NoInvocation
    /\ thrRes = [op |-> "none", args |-> NoArgs, invoked |-> FALSE,
                had |-> NoArgs]
    /\ wakes = 0
    /\ lastArgs = NoArgs

\* function invoke(args), reached by the path `via`: fn runs with args at now.
invoke_keeps_lastCallTime(args, via) ==
    /\ lastCallTime' = lastCallTime
    /\ thrPrev' = thrLast
    /\ thrLast' = [t |-> now, args |-> args, via |-> via]

invoke(args, via) ==
    /\ lastCallTime' = now
    /\ thrPrev' = thrLast
    /\ thrLast' = [t |-> now, args |-> args, via |-> via]

\* A throttled(...args) that schedules a wake for every suppressed call.
throttled_always_schedules(args) ==
    LET elapsed == now - lastCallTime
    IN  /\ IF elapsed >= interval
           THEN /\ timer' = NoTimer
                /\ wakes' = Cleared(wakes)
                /\ pendingArgs' = NoArgs
                /\ invoke(args, "leading")
                /\ thrRes' = [op |-> "call", args |-> args, invoked |-> TRUE,
                              had |-> pendingArgs]
           ELSE /\ pendingArgs' = args
                /\ timer' = [set |-> TRUE, due |-> now + (interval - elapsed)]
                /\ wakes' = wakes + 1
                /\ thrRes' = [op |-> "call", args |-> args, invoked |-> FALSE,
                              had |-> pendingArgs]
                /\ UNCHANGED <<lastCallTime, thrLast, thrPrev>>
        /\ lastArgs' = args
        /\ UNCHANGED <<now, interval>>

\* A throttled(...args) that lets a call through only after more than interval.
throttled_strict_elapsed(args) ==
    LET elapsed == now - lastCallTime
    IN  /\ IF elapsed > interval
           THEN /\ timer' = NoTimer
                /\ wakes' = Cleared(wakes)
                /\ pendingArgs' = NoArgs
                /\ invoke(args, "leading")
                /\ thrRes' = [op |-> "call", args |-> args, invoked |-> TRUE,
                              had |-> pendingArgs]
           ELSE /\ pendingArgs' = args
                /\ timer' = IF ~timer.set
                             THEN [set |-> TRUE, due |-> now + (interval - elapsed)]
                             ELSE timer
                /\ wakes' = IF ~timer.set THEN wakes + 1 ELSE wakes
                /\ thrRes' = [op |-> "call", args |-> args, invoked |-> FALSE,
                              had |-> pendingArgs]
                /\ UNCHANGED <<lastCallTime, thrLast, thrPrev>>
        /\ lastArgs' = args
        /\ UNCHANGED <<now, interval>>

\* A throttled(...args) whose suppressed calls keep the first payload.
throttled_keeps_first_pending(args) ==
    LET elapsed == now - lastCallTime
    IN  /\ IF elapsed >= interval
           THEN /\ timer' = NoTimer
                /\ wakes' = Cleared(wakes)
                /\ pendingArgs' = NoArgs
                /\ invoke(args, "leading")
                /\ thrRes' = [op |-> "call", args |-> args, invoked |-> TRUE,
                              had |-> pendingArgs]
           ELSE /\ pendingArgs' = IF pendingArgs = NoArgs THEN args ELSE pendingArgs
                /\ timer' = IF ~timer.set
                             THEN [set |-> TRUE, due |-> now + (interval - elapsed)]
                             ELSE timer
                /\ wakes' = IF ~timer.set THEN wakes + 1 ELSE wakes
                /\ thrRes' = [op |-> "call", args |-> args, invoked |-> FALSE,
                              had |-> pendingArgs]
                /\ UNCHANGED <<lastCallTime, thrLast, thrPrev>>
        /\ lastArgs' = args
        /\ UNCHANGED <<now, interval>>

\* function throttled(...args)
throttled(args) ==
    LET elapsed == now - lastCallTime
    IN  /\ IF elapsed >= interval
           THEN /\ timer' = NoTimer
                /\ wakes' = Cleared(wakes)
                /\ pendingArgs' = NoArgs
                /\ invoke(args, "leading")
                /\ thrRes' = [op |-> "call", args |-> args, invoked |-> TRUE,
                         had |-> pendingArgs]
           ELSE /\ pendingArgs' = args
                /\ timer' = IF ~timer.set
                             THEN [set |-> TRUE, due |-> now + (interval - elapsed)]
                             ELSE timer
                /\ wakes' = IF ~timer.set THEN wakes + 1 ELSE wakes
                /\ thrRes' = [op |-> "call", args |-> args, invoked |-> FALSE,
                         had |-> pendingArgs]
                /\ UNCHANGED <<lastCallTime, thrLast, thrPrev>>
        /\ lastArgs' = args
        /\ UNCHANGED <<now, interval>>

\* A setTimeout callback that discards the payload it finds.
timerFires_drops_payload ==
    /\ timer.set
    /\ now >= timer.due
    /\ timer' = NoTimer
    /\ wakes' = wakes - 1
    /\ pendingArgs' = NoArgs
    /\ thrRes' = [op |-> "timer", args |-> NoArgs, invoked |-> FALSE,
                  had |-> pendingArgs]
    /\ UNCHANGED <<now, interval, lastArgs, lastCallTime, thrLast, thrPrev>>

\* The setTimeout callback: the host runs it at its due time or later.
timerFires ==
    /\ timer.set
    /\ now >= timer.due
    /\ timer' = NoTimer
    /\ wakes' = wakes - 1
    /\ IF pendingArgs # NoArgs
       THEN /\ pendingArgs' = NoArgs
            /\ invoke(pendingArgs, "timer")
            /\ thrRes' = [op |-> "timer", args |-> pendingArgs, invoked |-> TRUE,
                         had |-> pendingArgs]
       ELSE /\ thrRes' = [op |-> "timer", args |-> NoArgs, invoked |-> FALSE,
                         had |-> pendingArgs]
            /\ UNCHANGED <<pendingArgs, lastCallTime, thrLast, thrPrev>>
    /\ UNCHANGED <<now, interval, lastArgs>>

\* A clearPending that discards the wake and keeps the payload.
clearPending_keeps_payload ==
    /\ timer' = NoTimer
    /\ wakes' = Cleared(wakes)
    /\ pendingArgs' = pendingArgs
    /\ thrRes' = [op |-> "cancel", args |-> NoArgs, invoked |-> FALSE,
                  had |-> pendingArgs]
    /\ UNCHANGED <<now, interval, lastCallTime, thrLast, thrPrev, lastArgs>>

\* function clearPending(), which is throttled.cancel
clearPending ==
    /\ timer' = NoTimer
    /\ wakes' = Cleared(wakes)
    /\ pendingArgs' = NoArgs
    /\ thrRes' = [op |-> "cancel", args |-> NoArgs, invoked |-> FALSE,
                         had |-> pendingArgs]
    /\ UNCHANGED <<now, interval, lastCallTime, thrLast, thrPrev, lastArgs>>

\* A flush that leaves the scheduled wake in place.
flush_keeps_timer ==
    /\ IF pendingArgs # NoArgs
       THEN /\ timer' = timer
            /\ wakes' = wakes
            /\ pendingArgs' = NoArgs
            /\ invoke(pendingArgs, "flush")
            /\ thrRes' = [op |-> "flush", args |-> pendingArgs, invoked |-> TRUE,
                          had |-> pendingArgs]
       ELSE /\ thrRes' = [op |-> "flush", args |-> NoArgs, invoked |-> FALSE,
                          had |-> pendingArgs]
            /\ UNCHANGED <<timer, wakes, pendingArgs, lastCallTime, thrLast, thrPrev>>
    /\ UNCHANGED <<now, interval, lastArgs>>

\* throttled.flush
flush ==
    /\ IF pendingArgs # NoArgs
       THEN /\ timer' = NoTimer
            /\ wakes' = Cleared(wakes)
            /\ pendingArgs' = NoArgs
            /\ invoke(pendingArgs, "flush")
            /\ thrRes' = [op |-> "flush", args |-> pendingArgs, invoked |-> TRUE,
                         had |-> pendingArgs]
       ELSE /\ thrRes' = [op |-> "flush", args |-> NoArgs, invoked |-> FALSE,
                         had |-> pendingArgs]
            /\ UNCHANGED <<timer, wakes, pendingArgs, lastCallTime, thrLast, thrPrev>>
    /\ UNCHANGED <<now, interval, lastArgs>>

ThrCall == \E args \in Args : throttled(args)

\* ===================================================== end of components

\* =========================================================== specifications
\* A limiter nobody uses: maxRequests = 1, windowMs = 1.
RlIdle == RlInit(2, 2)

\* A cache nobody uses: maxSize = 1, no expiry.
LruIdle == createLruCache(2, TtlOmitted)

\* A breaker nobody uses: failureThreshold = 1, resetTimeoutMs = 1.
CbIdle == createCircuitBreaker(2, 2)

\* A throttle nobody uses: intervalMs = 1.
ThrIdle == throttle(2)

InitRl ==
    /\ now = 0
    /\ \E m2 \in MaxRequestsArgs, w2 \in WindowArgs : RlInit(m2, w2)
    /\ SemIdle
    /\ LruIdle
    /\ CbIdle
    /\ ThrIdle

NextRl ==
    \/ consume /\ UNCHANGED <<semVars, lruVars, cbVars, thrVars>>
    \/ count /\ UNCHANGED <<semVars, lruVars, cbVars, thrVars>>
    \/ rlReset /\ UNCHANGED <<semVars, lruVars, cbVars, thrVars>>
    \/ Tick(MaxTime) /\ UNCHANGED <<semVars, rlVars, lruVars, cbVars, thrVars>>

SpecRl == InitRl /\ [][NextRl]_vars

\* ================================================== semaphore: specification
InitSem == now = 0 /\ SemInit /\ RlIdle /\ LruIdle /\ CbIdle /\ ThrIdle

NextSem ==
    \/ SemAcquire /\ UNCHANGED <<rlVars, lruVars, cbVars, thrVars>>
    \/ SemRun /\ UNCHANGED <<rlVars, lruVars, cbVars, thrVars>>
    \/ SemRelease /\ UNCHANGED <<rlVars, lruVars, cbVars, thrVars>>
    \/ SemRunInvokeFn /\ UNCHANGED <<rlVars, lruVars, cbVars, thrVars>>
    \/ SemRunSettle /\ UNCHANGED <<rlVars, lruVars, cbVars, thrVars>>

\* Every release callback is invoked at most once.
SpecSem == InitSem /\ [][NextSem]_vars

\* What the holder of a permit does next: a caller of acquire() invokes its
\* release callback, a run invokes fn, and fn settles.
SemHolderMoves(c) ==
    /\ \/ ReleaseCallback(c)
       \/ RunInvokeFn(c)
       \/ \E outcome \in {"ok", "err"} : RunSettle(c, outcome)
    /\ UNCHANGED <<rlVars, lruVars, cbVars, thrVars>>

\* Every granted permit is eventually released: no holder waits forever to move.
SemFair == \A c \in Callers : WF_vars(SemHolderMoves(c))

SpecSemLive == InitSem /\ [][NextSem]_vars /\ SemFair

\* Callers may invoke a release callback again (up to MaxReleaseCalls times).
NextSemDouble ==
    \/ NextSem
    \/ SemReleaseAgain /\ UNCHANGED <<rlVars, lruVars, cbVars, thrVars>>

SpecSemDouble == InitSem /\ [][NextSemDouble]_vars

\* ================================================ LRU cache: specification
InitLru ==
    /\ now = 0
    /\ \E m2 \in MaxSizeArgs, t2 \in TtlArgs : createLruCache(m2, t2)
    /\ SemIdle
    /\ RlIdle
    /\ CbIdle
    /\ ThrIdle

NextLru ==
    \/ LruGet /\ UNCHANGED <<semVars, rlVars, cbVars, thrVars>>
    \/ LruSet /\ UNCHANGED <<semVars, rlVars, cbVars, thrVars>>
    \/ LruHas /\ UNCHANGED <<semVars, rlVars, cbVars, thrVars>>
    \/ LruDelete /\ UNCHANGED <<semVars, rlVars, cbVars, thrVars>>
    \/ LruClear /\ UNCHANGED <<semVars, rlVars, cbVars, thrVars>>
    \/ Tick(LruMaxTime) /\ UNCHANGED <<semVars, rlVars, lruVars, cbVars, thrVars>>

SpecLru == InitLru /\ [][NextLru]_vars

\* ========================================== circuit breaker: specification
InitCb ==
    /\ now = 0
    /\ \E f2 \in ThresholdArgs, r2 \in ResetArgs : createCircuitBreaker(f2, r2)
    /\ SemIdle
    /\ RlIdle
    /\ LruIdle
    /\ ThrIdle

NextCb ==
    \/ CbCall /\ UNCHANGED <<semVars, rlVars, lruVars, thrVars>>
    \/ CbSettle /\ UNCHANGED <<semVars, rlVars, lruVars, thrVars>>
    \/ cbReset /\ UNCHANGED <<semVars, rlVars, lruVars, thrVars>>
    \/ StateRead /\ UNCHANGED <<semVars, rlVars, lruVars, thrVars>>
    \/ Tick(MaxTime) /\ UNCHANGED <<semVars, rlVars, lruVars, cbVars, thrVars>>

SpecCb == InitCb /\ [][NextCb]_vars

\* =================================== rate limiter and breaker: specification
\* The limiter and the breaker side by side.  They share nothing but the clock,
\* so each is exercised while the other rests as constructed.
InitReset == InitRl \/ InitCb

NextReset ==
    \/ CbIdle /\ consume /\ UNCHANGED <<semVars, lruVars, cbVars, thrVars>>
    \/ CbIdle /\ count /\ UNCHANGED <<semVars, lruVars, cbVars, thrVars>>
    \/ CbIdle /\ rlReset /\ UNCHANGED <<semVars, lruVars, cbVars, thrVars>>
    \/ RlIdle /\ CbCall /\ UNCHANGED <<semVars, rlVars, lruVars, thrVars>>
    \/ RlIdle /\ CbSettle /\ UNCHANGED <<semVars, rlVars, lruVars, thrVars>>
    \/ RlIdle /\ cbReset /\ UNCHANGED <<semVars, rlVars, lruVars, thrVars>>
    \/ RlIdle /\ StateRead /\ UNCHANGED <<semVars, rlVars, lruVars, thrVars>>
    \/ Tick(MaxTime) /\ UNCHANGED <<semVars, rlVars, lruVars, cbVars, thrVars>>

SpecReset == InitReset /\ [][NextReset]_vars

\* ====================================== semaphore and breaker: specification
\* The two primitives that wrap a function, side by side; each is exercised
\* while the other rests as constructed.
InitWrap == InitSem \/ InitCb

NextWrap ==
    \/ CbIdle /\ SemAcquire /\ UNCHANGED <<rlVars, lruVars, cbVars, thrVars>>
    \/ CbIdle /\ SemRun /\ UNCHANGED <<rlVars, lruVars, cbVars, thrVars>>
    \/ CbIdle /\ SemRelease /\ UNCHANGED <<rlVars, lruVars, cbVars, thrVars>>
    \/ CbIdle /\ SemRunInvokeFn /\ UNCHANGED <<rlVars, lruVars, cbVars, thrVars>>
    \/ CbIdle /\ SemRunSettle /\ UNCHANGED <<rlVars, lruVars, cbVars, thrVars>>
    \/ SemIdle /\ CbCall /\ UNCHANGED <<semVars, rlVars, lruVars, thrVars>>
    \/ SemIdle /\ CbSettle /\ UNCHANGED <<semVars, rlVars, lruVars, thrVars>>
    \/ SemIdle /\ cbReset /\ UNCHANGED <<semVars, rlVars, lruVars, thrVars>>
    \/ SemIdle /\ StateRead /\ UNCHANGED <<semVars, rlVars, lruVars, thrVars>>
    \/ Tick(MaxTime) /\ UNCHANGED <<semVars, rlVars, lruVars, cbVars, thrVars>>

SpecWrap == InitWrap /\ [][NextWrap]_vars

\* ================================================= throttle: specification
\* The throttle is created at any clock value.
InitThr ==
    /\ now \in 0..MaxStart
    /\ \E i2 \in IntervalArgs : throttle(i2)
    /\ SemIdle
    /\ RlIdle
    /\ LruIdle
    /\ CbIdle

NextThr ==
    \/ ThrCall /\ UNCHANGED <<semVars, rlVars, lruVars, cbVars>>
    \/ timerFires /\ UNCHANGED <<semVars, rlVars, lruVars, cbVars>>
    \/ clearPending /\ UNCHANGED <<semVars, rlVars, lruVars, cbVars>>
    \/ flush /\ UNCHANGED <<semVars, rlVars, lruVars, cbVars>>
    \/ Tick(MaxTime) /\ UNCHANGED <<semVars, rlVars, lruVars, cbVars, thrVars>>

SpecThr == InitThr /\ [][NextThr]_vars

\* The throttle used without cancel(), on a host that lets time pass and runs
\* a due callback.  Calls stop after MaxTime; the clock runs on until the last
\* wake is due.
TickToWake ==
    /\ now < MaxTime \/ (timer.set /\ now < timer.due)
    /\ now' = now + 1

ThrCallInTime == now <= MaxTime /\ ThrCall

NextThrLive ==
    \/ ThrCallInTime /\ UNCHANGED <<semVars, rlVars, lruVars, cbVars>>
    \/ timerFires /\ UNCHANGED <<semVars, rlVars, lruVars, cbVars>>
    \/ flush /\ UNCHANGED <<semVars, rlVars, lruVars, cbVars>>
    \/ TickToWake /\ UNCHANGED <<semVars, rlVars, lruVars, cbVars, thrVars>>

ThrFair ==
    /\ WF_vars(timerFires /\ UNCHANGED <<semVars, rlVars, lruVars, cbVars>>)
    /\ WF_vars(timer.set /\ TickToWake
                 /\ UNCHANGED <<semVars, rlVars, lruVars, cbVars, thrVars>>)

SpecThrLive == InitThr /\ [][NextThrLive]_vars /\ ThrFair

\* ==================================================================== claims
\* The callers that hold a permit: granted one and not yet released it.
Holders == {c \in Callers : semPc[c] \in {"granted", "running"}}

\* C1: with every release callback invoked at most once, 0 <= active() <= limit(),
\* active() is the number of permits granted and not yet released, and at most
\* limit() tasks started through run are executing fn.
C1_ActiveWithinLimit ==
    /\ 0 <= activeCount
    /\ activeCount <= maxConcurrency
    /\ activeCount = Cardinality(Holders)
    /\ Cardinality({c \in Callers : semPc[c] = "running"}) <= maxConcurrency

\* C1's case: the gate is full with a caller queued behind it, a task is running
\* and a permit has already been released once.
C1_Witness ==
    /\ activeCount = maxConcurrency
    /\ queue # <<>>
    /\ \E c \in Callers : semPc[c] = "running"
    /\ \E c \in Callers : releaseCalls[c] = 1

\* C2: permits are granted in the order of the acquire() calls: the callers
\* granted so far are exactly the first ones to have called acquire(), in that
\* order, so no caller is granted a permit while an earlier one still waits.
C2_FifoGrants ==
    /\ Len(grants) <= Len(arrivals)
    /\ grants = SubSeq(arrivals, 1, Len(grants))
    /\ \A c \in Callers : \A d \in Callers :
          (semPc[c] = "waiting" /\ d > c) => semPc[d] \in {"idle", "waiting"}

\* C2's case: a queued caller has been handed a permit by a release while two
\* later callers are still waiting behind it.
C2_Witness ==
    \E c \in everQueued : \E d \in everQueued :
        /\ c < d
        /\ semPc[c] \in {"granted", "running", "done"}
        /\ semPc[d] = "waiting"
        /\ \E e \in Callers : e > d /\ semPc[e] = "waiting"

\* The live part of the head-index buffer: from head to the end.
rlLive == SubSeq(buf, head + 1, Len(buf))

\* The accepted events at or after the cutoff of nowMs, in order.
AcceptedSince(nowMs) ==
    LET InWindow(t) == t >= nowMs - windowMs
    IN  SelectSeq(rlAccepted, InWindow)

\* How many accepted events lie in the closed interval [t - windowMs, t].
AcceptedIn(t) ==
    Cardinality({i \in DOMAIN rlAccepted :
                    rlAccepted[i] >= t - windowMs /\ rlAccepted[i] <= t})

\* C3: with no reset in between, every closed interval [t - windowMs, t] holds at
\* most maxRequests accepted consume() events; consume() at time now is allowed
\* exactly when fewer than maxRequests accepted timestamps >= now - windowMs
\* exist; pruning keeps exactly those (a timestamp equal to the cutoff stays);
\* and count() never exceeds maxRequests.  Both versions of the limiter.
C3_WindowBound ==
    /\ \A t \in 0..MaxTime : AcceptedIn(t) <= maxRequests
    /\ rlRes.op = "consume" => (rlRes.allowed <=> rlRes.liveBefore < maxRequests)
    /\ rlResNaive.op = "consume" =>
          (rlResNaive.allowed <=> rlResNaive.liveBefore < maxRequests)
    /\ rlRes.op \in {"consume", "count"} =>
          /\ rlLive = AcceptedSince(rlRes.at)
          /\ timestamps = AcceptedSince(rlRes.at)
          /\ rlRes.count = Len(rlLive)
          /\ rlResNaive.count = Len(timestamps)
    /\ rlActiveCount(buf, head) <= maxRequests
    /\ Len(timestamps) <= maxRequests

\* C3's case: a consume() is denied by a retained timestamp that lies exactly on
\* the cutoff, after older timestamps have been pruned.
C3_Witness ==
    /\ rlRes.op = "consume"
    /\ ~rlRes.allowed
    /\ rlLive # <<>>
    /\ rlLive[1] = rlRes.at - windowMs
    /\ Len(rlAccepted) > Len(rlLive)

\* C4: after any sequence of set/get/has/delete/clear, size() <= maxSize, where
\* maxSize is the configured value clamped to at least 1; also with maxSize = 1
\* and when a stored key is overwritten in a full cache.
C4_SizeBounded ==
    /\ maxSize >= 1
    /\ size <= maxSize
    /\ \A i \in DOMAIN map : \A j \in DOMAIN map : i # j => map[i].key # map[j].key

\* C4's case: a cache of maxSize 1 is full and the key it stores has just been
\* overwritten with another value.
C4_Witness ==
    /\ maxSize = 1
    /\ size = maxSize
    /\ lruRes.op = "set"
    /\ lruRes.found
    /\ map[1].key = lruRes.key
    /\ map[1].value = lruRes.value

\* A step that is a call(fn): the breaker records a new call outcome.
CbCallStep == cbRes' # cbRes /\ cbRes'.op = "call"

\* A step in which the fn of some call is invoked.
CbFnInvoked == \E s \in Slots : cbPc[s] = "idle" /\ cbPc'[s] = "inflight"

\* C5: a call(fn) made while the breaker is open and now - openedAt < resetTimeoutMs
\* rejects with CircuitOpenError carrying retryAfterMs =
\* max(0, resetTimeoutMs - (now - openedAt)), does not invoke fn, and leaves the
\* stored state, failures() and openedAt as they were.
C5_OpenRejects ==
    [][(state = "open" /\ now - openedAt < resetTimeoutMs /\ CbCallStep) =>
          /\ cbRes'.outcome = "rejected"
          /\ cbRes'.retryAfterMs = Max(0, resetTimeoutMs - (now - openedAt))
          /\ cbRes'.retryAfterMs > 0
          /\ ~CbFnInvoked
          /\ cbPc' = cbPc
          /\ state' = state
          /\ failures' = failures
          /\ openedAt' = openedAt]_vars

\* C5's case: a call has just been rejected, some time after the breaker opened
\* and before its timeout elapsed, while another call is still in flight.
C5_Witness ==
    /\ state = "open"
    /\ cbRes.op = "call"
    /\ cbRes.outcome = "rejected"
    /\ cbRes.at = now
    /\ now > openedAt
    /\ cbRes.retryAfterMs = resetTimeoutMs - (now - openedAt)
    /\ \E s \in Slots : cbPc[s] = "inflight"

\* C6: from closed the breaker opens exactly when failureThreshold consecutive
\* failures have occurred with no success in between; a success in closed resets
\* failures() to 0; below the threshold the breaker stays closed and failures()
\* is the number of failures since the last success.
C6_OpensAtThreshold ==
    /\ [](state = "closed" => (failures = cbFailRun /\ cbFailRun < failureThreshold))
    /\ [][state = "closed" =>
             ((state' = "open") <=> (cbFailRun' = failureThreshold))]_vars
    /\ [][(state = "closed" /\ cbRes' # cbRes /\ cbRes'.op = "settle"
               /\ cbRes'.outcome = "ok") =>
             (state' = "closed" /\ failures' = 0)]_vars

\* C6's case: with a threshold above 1 the breaker has just opened, at a clock
\* value above 0, on the failure that brought the count to the threshold.
C6_Witness ==
    /\ failureThreshold > 1
    /\ state = "open"
    /\ cbRes.op = "settle"
    /\ cbRes.outcome = "err"
    /\ failures = failureThreshold
    /\ cbFailRun = failureThreshold
    /\ openedAt = now
    /\ now > 0

\* C7: once opened, state() reports open while now - openedAt < resetTimeoutMs
\* and half-open from then on, until a call outcome or reset() changes the
\* breaker; no timer is involved (the passing of time alone changes nothing
\* stored); a call made once the timeout has elapsed invokes fn.
C7_LazyHalfOpen ==
    /\ [](state = "open" =>
             State = (IF now - cbOpenedClock < resetTimeoutMs THEN "open" ELSE "half-open"))
    /\ [](state = "half-open" =>
             (State = "half-open" /\ now - cbOpenedClock >= resetTimeoutMs))
    /\ [][now' # now => UNCHANGED <<state, consecutiveFailures, openedAt>>]_vars
    /\ [][(state \in {"open", "half-open"} /\ now - cbOpenedClock >= resetTimeoutMs
               /\ CbCallStep) =>
             (cbRes'.outcome = "admitted" /\ CbFnInvoked /\ state' = "half-open")]_vars

\* C7's case: the breaker reopened after a failed probe, its timeout elapsed
\* again, and a call has just invoked fn instead of being rejected.
C7_Witness ==
    /\ resetTimeoutMs > 0
    /\ state = "half-open"
    /\ cbRes.op = "call"
    /\ cbRes.outcome = "admitted"
    /\ cbRes.at = now
    /\ openedAt > 0
    /\ now - openedAt >= resetTimeoutMs

\* C8: in half-open a single probe is allowed: while a call admitted in half-open
\* is in flight and the breaker is still half-open, no other call's fn is invoked.
C8_SingleProbe ==
    [][(state = "half-open"
          /\ \E p \in Slots : cbPc[p] = "inflight" /\ cbAdmitted[p] = "half-open") =>
          ~CbFnInvoked]_vars

\* C9: fn is invoked at most once per interval: an invocation made by a
\* throttled call or by the trailing timer comes at least interval after the
\* invocation before it (only flush() may invoke sooner), whatever calls,
\* cancel()s and timer firings came in between; and the trailing wake is never
\* due before the last invocation plus interval.
C9_AtMostOncePerInterval ==
    /\ (thrPrev.via # "none" /\ thrLast.via # "flush") =>
          thrLast.t - thrPrev.t >= interval
    /\ (timer.set /\ thrLast.via # "none") => timer.due >= thrLast.t + interval
    /\ timer.set => timer.due >= lastCallTime + interval
    /\ thrLast.via # "none" => lastCallTime = thrLast.t

\* C9's case: after a leading invocation and a suppressed call with other
\* arguments, the trailing timer has invoked fn exactly one interval (of more
\* than 1 ms) after the leading invocation.
C9_Witness ==
    /\ interval > 1
    /\ thrPrev.via = "leading"
    /\ thrLast.via = "timer"
    /\ thrLast.t - thrPrev.t = interval
    /\ thrRes.op = "timer"
    /\ thrLast.args # thrPrev.args

\* -------------------------------------------------------------- later claims
\* C10: run(fn) releases its permit exactly once whether fn resolved or rejected:
\* a settled run has called release once and an unsettled one never; the release
\* hands the permit to the head waiter (active() unchanged) or returns it
\* (active() one less); with every caller settled active() is back to 0.
C10_RunReleasesOnce ==
    /\ [](\A c \in Callers : semKind[c] = "run" =>
             releaseCalls[c] = (IF semPc[c] = "done" THEN 1 ELSE 0))
    /\ []((\A c \in Callers : semPc[c] \in {"idle", "done"}) => activeCount = 0)
    /\ [][\A c \in Callers :
             (semKind[c] = "run" /\ semPc[c] = "running" /\ semPc'[c] = "done") =>
                 IF queue # <<>>
                 THEN /\ activeCount' = activeCount
                      /\ semPc'[Head(queue)] = "granted"
                      /\ queue' = Tail(queue)
                 ELSE /\ activeCount' = activeCount - 1
                      /\ queue' = queue]_vars

\* C10's case: one run settled after fn rejected and another after fn resolved,
\* and a queued caller has been handed a permit.
C10_Witness ==
    /\ \E c \in Callers : semKind[c] = "run" /\ semPc[c] = "done" /\ runOutcome[c] = "err"
    /\ \E c \in Callers : semKind[c] = "run" /\ semPc[c] = "done" /\ runOutcome[c] = "ok"
    /\ \E c \in everQueued : semPc[c] \in {"granted", "running", "done"}

\* C11: invoking a release callback more than once never makes active() negative
\* and never breaks the bound: active() stays within 0..limit() and at no time
\* do more than limit() callers hold a permit.
C11_DoubleReleaseSafe ==
    /\ activeCount >= 0
    /\ activeCount <= maxConcurrency
    /\ Cardinality(Holders) <= maxConcurrency

\* C12: consume() at clock value now, after pruning: if the retained count is
\* >= maxRequests it returns allowed = false, remaining = 0 and retryAfterMs =
\* max(0, oldestRetained + windowMs - now) and records nothing; otherwise it
\* appends now to the log and returns allowed = true, retryAfterMs = 0 and
\* remaining = maxRequests - (count after the append).  Both versions.
C12_ConsumeResult ==
    rlRes.op = "consume" =>
        LET live == AcceptedSince(rlRes.at)
        IN  /\ rlLive = live
            /\ timestamps = live
            /\ \A res \in {rlRes, rlResNaive} :
                  IF rlRes.liveBefore >= maxRequests
                  THEN /\ ~res.allowed
                       /\ res.remaining = 0
                       /\ res.retryAfterMs = Max(0, live[1] + windowMs - rlRes.at)
                       /\ Len(live) = rlRes.liveBefore
                  ELSE /\ res.allowed
                       /\ res.retryAfterMs = 0
                       /\ Len(live) = rlRes.liveBefore + 1
                       /\ live[Len(live)] = rlRes.at
                       /\ res.remaining = maxRequests - Len(live)

\* C12's case: after an older timestamp was pruned, a consume() has just been
\* denied with a retryAfterMs strictly between 0 and windowMs.
C12_Witness ==
    /\ rlRes.op = "consume"
    /\ ~rlRes.allowed
    /\ rlRes.retryAfterMs > 0
    /\ rlRes.retryAfterMs < windowMs
    /\ Len(rlAccepted) > Len(rlLive)

\* A step that is a consume() made at a later clock value than the last operation.
RlConsumeStep == rlRes' # rlRes /\ rlRes'.op = "consume"

\* C13: a consume() denied at time t returns retryAfterMs = r > 0, the time until
\* the oldest blocking event expires: with no other operation in between, a
\* consume() at time t + r is allowed.
C13_RetryAfterAllows ==
    [][(rlRes.op = "consume" /\ ~rlRes.allowed /\ rlRes.retryAfterMs > 0
           /\ RlConsumeStep /\ now = rlRes.at + rlRes.retryAfterMs) =>
          rlRes'.allowed]_vars

\* A sequence of timestamps is non-decreasing.
NonDecreasing(ts) == \A i \in DOMAIN ts : \A j \in DOMAIN ts : i <= j => ts[i] <= ts[j]

LruStep(op) == lruRes'.op = op /\ (lruRes' # lruRes \/ map' # map)

\* The entries of the cache, as a set.
Entries(m) == {m[i] : i \in DOMAIN m}

\* C15: set(key, value) places key at the most-recently-used end of keys(), also
\* when key was already stored, in which case no other entry is evicted; a new
\* key set into a full cache evicts exactly the entry at the first end of keys()
\* and no other; the other keys keep their relative order (and their entries).
C15_SetOrder ==
    [][LruStep("set") =>
          LET k == lruRes'.key
          IN  /\ keys' # <<>>
              /\ keys'[Len(keys')] = k
              /\ map'[Len(map')].value = lruRes'.value
              /\ keys' = IF mapHas(map, k) THEN Append(Without(keys, k), k)
                         ELSE IF Len(map) >= maxSize THEN Append(Tail(keys), k)
                         ELSE Append(keys, k)
              /\ \A e \in Entries(map') : e.key # k => e \in Entries(map)]_vars

\* C15's case: in a cache of maxSize 2 that stored two other keys, the set of a
\* new key has just pushed out the one at the first end and kept the other.
C15_Witness ==
    /\ maxSize = 2
    /\ lruRes.op = "set"
    /\ ~lruRes.found
    /\ lruRef.victim.key # NoKey
    /\ Len(keys) = 2
    /\ keys[2] = lruRes.key
    /\ ~mapHas(map, lruRef.victim.key)

\* C16: get(key) on a stored, unexpired key moves that key to the
\* most-recently-used end of keys() and keeps the relative order of the others
\* (and every entry); so keys() is always the recency list, least recently set
\* or got first, and the key a capacity eviction removes is the least recently
\* set or got one.
C16_GetPromotes ==
    /\ [](keys = lruRef.order)
    /\ [][LruStep("get") =>
             LET k == lruRes'.key
             IN  (mapHas(map, k) /\ (mapGet(map, k).expiresAt = 0
                                       \/ now < mapGet(map, k).expiresAt)) =>
                     /\ lruRes'.found
                     /\ lruRes'.value = mapGet(map, k).value
                     /\ keys' = Append(Without(keys, k), k)
                     /\ Entries(map') = Entries(map)]_vars
    /\ [][(LruStep("set") /\ ~mapHas(map, lruRes'.key) /\ Len(map) >= maxSize) =>
             /\ ~mapHas(map', Head(lruRef.order))
             /\ \A k \in Keys : (mapHas(map, k) /\ k # Head(lruRef.order)) => mapHas(map', k)]_vars

\* C16's case: with maxSize 2 and two keys stored, the one set earlier was got
\* and moved behind the one set later; the set of a third key has then pushed
\* out the one set later and kept the one set earlier.
C16_Witness ==
    /\ maxSize = 2
    /\ ttlMs > 0
    /\ lruRes.op = "set"
    /\ ~lruRes.found
    /\ lruRef.victim.key # NoKey
    /\ Len(map) = 2
    /\ map[2].key = lruRes.key
    /\ map[1].expiresAt < lruRef.victim.exp

\* The unexpired keys the set of a new key k2 would push out of the cache m.
VictimsOf(m, k2) ==
    {k \in Keys : /\ mapHas(m, k)
                  /\ mapGet(m, k).expiresAt = 0 \/ now < mapGet(m, k).expiresAt
                  /\ ~mapHas(evictWhileOver(Append(m,
                         [key |-> k2, value |-> "x", expiresAt |-> 0])), k)}

C18_TtlExpiry ==
    /\ [][LruStep("set") =>
             /\ map'[Len(map')].key = lruRes'.key
             /\ map'[Len(map')].expiresAt = IF ttlMs > 0 THEN now + ttlMs ELSE 0]_vars
    /\ [][\A e \in Entries(map') :
             e \in Entries(map) \/ (LruStep("set") /\ e.key = lruRes'.key)]_vars
    /\ [](\A e \in Entries(map) :
             /\ e.expiresAt = lruRef.exp[e.key]
             /\ IF ttlMs > 0
                THEN e.expiresAt >= ttlMs /\ e.expiresAt <= now + ttlMs
                ELSE e.expiresAt = 0)
    /\ [][(LruStep("get") \/ LruStep("has")) =>
             LET k == lruRes'.key
             IN  IF mapHas(map, k)
                 THEN LET t == mapGet(map, k).expiresAt - ttlMs
                      IN  /\ lruRes'.found <=> (ttlMs = 0 \/ now < t + ttlMs)
                          /\ lruRes'.found => mapHas(map', k)
                          /\ (lruRes'.found /\ lruRes'.op = "get") =>
                                 lruRes'.value = mapGet(map, k).value
                          /\ ~lruRes'.found => lruRes'.value = Undefined
                 ELSE ~lruRes'.found]_vars

\* C18's case: with a ttlMs above 1, an entry was got in the last clock unit of
\* its life, some time after it was set, and its expiry is what the set gave it.
C18_Witness ==
    /\ ttlMs > 1
    /\ lruRes.op = "get"
    /\ lruRes.found
    /\ map[Len(map)].key = lruRes.key
    /\ map[Len(map)].expiresAt = now + 1

\* C19: the cache agrees with the reference model (a map of values and expiry
\* times plus a recency list) after every sequence of set/get/has/delete/clear
\* and clock advances: get returns the value of the most recent set of the key
\* when that entry has not since been deleted, cleared, evicted by capacity or
\* expired, and not-found otherwise; has and delete answer alike; the stored
\* keys, their order, values and expiry times are the reference's.
C19_MatchesReference ==
    /\ keys = lruRef.order
    /\ \A e \in Entries(map) :
          e.value = lruRef.val[e.key] /\ e.expiresAt = lruRef.exp[e.key]
    /\ \A k \in Keys : mapHas(map, k) <=> lruRef.val[k] # Undefined
    /\ lruRes.op \in {"get", "has", "delete", "set"} =>
          lruRes.found = lruRef.found
    /\ lruRes.op = "get" =>
          /\ lruRes.value = lruRef.value
          /\ lruRes.found <=> lruRes.value # Undefined
          /\ lruRes.found => lruRes.value = lruRef.val[lruRes.key]

\* C19's case: in a full cache of maxSize 2 with a time to live, at a clock
\* value above 0, get has just returned the value "y" of a stored key.
C19_Witness ==
    /\ maxSize = 2
    /\ Len(map) = 2
    /\ ttlMs > 0
    /\ now > 0
    /\ lruRes.op = "get"
    /\ lruRes.found
    /\ lruRes.value = "y"
    /\ lruRef.value = "y"

\* A step in which the fn of an in-flight call settles with the given outcome.
CbSettleStep(outcome) ==
    /\ \E s \in Slots : cbPc[s] = "inflight" /\ cbPc'[s] = "idle"
    /\ cbRes'.op = "settle"
    /\ cbRes'.outcome = outcome

C22_StateAgreesWithCall ==
    /\ [][(cbRes' # cbRes /\ cbRes'.op = "state") =>
             /\ UNCHANGED <<state, consecutiveFailures, openedAt, cbPc, cbAdmitted>>
             /\ cbRes'.outcome = State
             /\ State' = State]_vars
    /\ [][CbCallStep =>
             /\ (cbRes'.outcome = "rejected") <=> (State = "open")
             /\ (cbRes'.outcome = "admitted") <=> (State \in {"closed", "half-open"})
             /\ State' = State
             /\ state' = State]_vars

\* C22's case: state() has just answered half-open, at least one clock unit
\* after a timeout of more than 0 elapsed, while the stored state is still open.
C22_Witness ==
    /\ cbRes.op = "state"
    /\ cbRes.outcome = "half-open"
    /\ cbRes.at = now
    /\ state = "open"
    /\ resetTimeoutMs > 0
    /\ now - openedAt > resetTimeoutMs

\* The limiter's variables are what createSlidingWindowRateLimiter gives them.
RlFresh == buf = <<>> /\ head = 0 /\ timestamps = <<>>

\* The breaker's variables are what createCircuitBreaker gives them.
CbFresh ==
    /\ state = "closed"
    /\ consecutiveFailures = 0
    /\ openedAt = 0
    /\ \A s \in Slots : cbPc[s] = "idle"

\* C23: reset() on the rate limiter and on the circuit breaker restores the
\* state of construction from any reachable state (for the breaker: with no call
\* in flight): right after it count() = 0, resp. state() = closed and
\* failures() = 0, and every variable the operations read is what the
\* constructor gave it, so whatever follows returns what a fresh instance would
\* return at the same clock values; a second reset() changes nothing.
C23_ResetRestoresInitial ==
    /\ [](rlRes.op = "reset" =>
             (RlFresh /\ rlActiveCount(buf, head) = 0 /\ Len(timestamps) = 0))
    /\ [](cbRes.op = "reset" =>
             /\ state = "closed"
             /\ State = "closed"
             /\ failures = 0
             /\ openedAt = 0
             /\ (\A s \in Slots : cbPc[s] = "idle") => CbFresh)
    /\ [][(rlRes.op = "reset" /\ rlRes'.op = "reset") =>
             UNCHANGED <<buf, head, timestamps, maxRequests, windowMs>>]_vars
    /\ [][(cbRes.op = "reset" /\ cbRes'.op = "reset") =>
             UNCHANGED <<state, consecutiveFailures, openedAt, cbPc,
                         failureThreshold, resetTimeoutMs>>]_vars
    /\ [][(rlRes'.op = "reset" \/ cbRes'.op = "reset") =>
             UNCHANGED <<maxRequests, windowMs, failureThreshold, resetTimeoutMs>>]_vars

\* C23's case: reset() was called on a breaker that was open, with failures
\* counted and no call in flight, and time has passed since.
C23_Witness ==
    /\ cbRes.op = "reset"
    /\ cbRes.from = "open"
    /\ cbOpenedClock > 0
    /\ now > cbRes.at
    /\ CbFresh
    /\ State = "closed"

\* C24: when fn fails inside run(fn) or call(fn) the wrapper fails with fn's own
\* failure, and when fn succeeds it yields fn's result, in both cases together
\* with the bookkeeping (run: the permit released; call: failures() and the
\* state updated); the only failure a primitive raises on its own is
\* CircuitOpenError, and only on a call whose fn was not invoked.
C24_FailurePropagation ==
    /\ [](\A c \in Callers :
             /\ runOutcome[c] = fnOutcome[c]
             /\ runOutcome[c] \in {"none", "ok", "err"}
             /\ runOutcome[c] # "none" =>
                   (semKind[c] = "run" /\ semPc[c] = "done" /\ releaseCalls[c] = 1))
    /\ [](cbRes.op = "settle" => (cbRes.outcome = cbRes.fn /\ cbRes.fn \in {"ok", "err"}))
    /\ [](cbRes.op = "call" => (cbRes.outcome \in {"rejected", "admitted"}
                                   /\ cbRes.fn = "none"))
    /\ [][CbSettleStep("err") =>
             IF state = "half-open"
             THEN state' = "open" /\ openedAt' = now
             ELSE /\ failures' = failures + 1
                  /\ failures' >= failureThreshold => (state' = "open" /\ openedAt' = now)]_vars
    /\ [][CbSettleStep("ok") =>
             (failures' = 0 /\ (state = "half-open" => state' = "closed"))]_vars
    /\ [][(CbCallStep /\ cbRes'.outcome = "rejected") =>
             (~CbFnInvoked /\ cbPc' = cbPc /\ state = "open")]_vars
    /\ [][CbFnInvoked => cbRes'.outcome = "admitted"]_vars

\* C24's case: with a threshold of 2 the fn of a call has just failed in closed;
\* the call failed the same way, the count is at the threshold and the breaker
\* is open as of now.
C24_Witness ==
    /\ failureThreshold = 2
    /\ cbRes.op = "settle"
    /\ cbRes.fn = "err"
    /\ cbRes.outcome = "err"
    /\ cbRes.from = "closed"
    /\ cbRes.at = now
    /\ failures = 2
    /\ state = "open"
    /\ openedAt = now

\* A step of throttled(...args) that changed something.
ThrCallStep == now' = now /\ thrRes'.op = "call" /\ thrVars' # thrVars

\* No invocation of fn happened within the preceding interval.
ThrQuiet == thrLast.via = "none" \/ now - thrLast.t >= interval

\* C25: the first call on a new throttle, and any call made when fn was not
\* invoked within the preceding interval, invokes fn synchronously with the
\* call's own arguments, whatever the clock value is.
C25_QuietCallInvokes ==
    [][(ThrCallStep /\ ThrQuiet) =>
          /\ thrRes'.invoked
          /\ thrLast' = [t |-> now, args |-> thrRes'.args, via |-> "leading"]
          /\ pendingArgs' = NoArgs
          /\ ~timer'.set]_vars

\* A step of the setTimeout callback that invoked fn.
ThrTimerInvokes == now' = now /\ thrRes'.op = "timer" /\ thrRes'.invoked /\ thrVars' # thrVars

\* C26: a call arriving less than interval after the last invocation does not
\* invoke fn; its arguments replace the pending payload and a single wake is due
\* at the last invocation plus interval.  The payload is the most recent
\* suppressed call's arguments for as long as it is pending and never waits
\* without a wake, and the wake's invocation, never before its due time, passes
\* exactly that payload and leaves nothing pending and no wake behind.
C26_TrailingCoalesced ==
    /\ [][(ThrCallStep /\ thrLast.via # "none" /\ now - thrLast.t < interval) =>
             /\ ~thrRes'.invoked
             /\ thrLast' = thrLast
             /\ lastCallTime' = lastCallTime
             /\ pendingArgs' = thrRes'.args
             /\ timer' = [set |-> TRUE, due |-> thrLast.t + interval]]_vars
    /\ [](pendingArgs # NoArgs =>
             /\ timer.set
             /\ thrRes.op = "call"
             /\ ~thrRes.invoked
             /\ thrRes.args = pendingArgs)
    /\ []((timer.set /\ thrLast.via # "none") => timer.due = thrLast.t + interval)
    /\ [][ThrTimerInvokes =>
             /\ pendingArgs # NoArgs
             /\ thrRes.op = "call" /\ ~thrRes.invoked
             /\ thrLast' = [t |-> now, args |-> thrRes.args, via |-> "timer"]
             /\ now >= timer.due
             /\ thrLast.via # "none" => now >= thrLast.t + interval
             /\ pendingArgs' = NoArgs
             /\ timer' = NoTimer]_vars

\* C26's case: 1 ms after a leading invocation, with an interval of 2 ms, a
\* suppressed call has just replaced the payload of an earlier suppressed call
\* that carried other arguments; the one wake is due at the invocation plus 2.
C26_Witness ==
    /\ interval = 2
    /\ thrLast.via = "leading"
    /\ now = thrLast.t + 1
    /\ thrRes.op = "call"
    /\ ~thrRes.invoked
    /\ thrRes.had # NoArgs
    /\ thrRes.had # thrRes.args
    /\ pendingArgs = thrRes.args
    /\ timer = [set |-> TRUE, due |-> thrLast.t + 2]

\* A step of flush() that changed something.
ThrFlushStep == now' = now /\ thrRes'.op = "flush" /\ thrVars' # thrVars

\* C27: flush() with a payload pending invokes fn once, now, with that payload,
\* sets lastCallTime to now and clears the wake and the payload, so that the
\* timer never invokes fn on account of a flushed payload; flush() with nothing
\* pending invokes nothing and leaves interval, timer, lastCallTime and
\* pendingArgs as they were.
C27_Flush ==
    /\ [][(ThrFlushStep /\ pendingArgs # NoArgs) =>
             /\ thrRes'.invoked
             /\ thrLast' = [t |-> now, args |-> pendingArgs, via |-> "flush"]
             /\ thrPrev' = thrLast
             /\ lastCallTime' = now
             /\ timer' = NoTimer
             /\ pendingArgs' = NoArgs]_vars
    /\ [][(ThrFlushStep /\ pendingArgs = NoArgs) =>
             /\ ~thrRes'.invoked
             /\ UNCHANGED <<interval, timer, lastCallTime, pendingArgs, thrLast, thrPrev>>]_vars
    /\ [](thrRes.op = "flush" => (~timer.set /\ pendingArgs = NoArgs))
    /\ [][ThrTimerInvokes => (thrRes.op = "call" /\ thrRes.args = pendingArgs)]_vars

\* C27's case: a payload suppressed after a leading invocation was flushed
\* before its wake was due; the wake's due time has passed since, the flush is
\* still the last invocation and no wake is set.
C27_Witness ==
    /\ thrRes.op = "flush"
    /\ thrRes.invoked
    /\ thrPrev.via = "leading"
    /\ thrLast.via = "flush"
    /\ thrLast.args = thrRes.had
    /\ thrLast.t < thrPrev.t + interval
    /\ now >= thrPrev.t + interval
    /\ lastCallTime = thrLast.t
    /\ ~timer.set
    /\ pendingArgs = NoArgs

\* A step of cancel() that changed something.
ThrCancelStep == now' = now /\ thrRes'.op = "cancel" /\ thrVars' # thrVars

\* C28: cancel() discards the wake and the pending payload, invokes nothing and
\* leaves lastCallTime alone; after it nothing is pending and no wake is set, so
\* the timer invokes fn only on account of a later suppressed call; and the next
\* call is throttled against the last real invocation: it invokes fn exactly if
\* interval has passed since, and otherwise is due at that invocation plus
\* interval.
C28_Cancel ==
    /\ [][ThrCancelStep =>
             /\ ~thrRes'.invoked
             /\ timer' = NoTimer
             /\ pendingArgs' = NoArgs
             /\ UNCHANGED <<interval, lastCallTime, thrLast, thrPrev>>]_vars
    /\ [](thrRes.op = "cancel" => (~timer.set /\ pendingArgs = NoArgs))
    /\ [][ThrTimerInvokes => thrRes.op # "cancel"]_vars
    /\ [][(thrRes.op = "cancel" /\ ThrCallStep /\ thrLast.via # "none") =>
             /\ thrRes'.invoked = (now - thrLast.t >= interval)
             /\ ~thrRes'.invoked =>
                   /\ thrLast' = thrLast
                   /\ pendingArgs' = thrRes'.args
                   /\ timer' = [set |-> TRUE, due |-> thrLast.t + interval]]_vars

\* C28's case: a payload suppressed after a leading invocation was cancelled;
\* the time its wake was due has passed, the leading invocation is still the
\* last one and neither wake nor payload is left.
C28_Witness ==
    /\ thrRes.op = "cancel"
    /\ thrRes.had # NoArgs
    /\ thrLast.via = "leading"
    /\ thrPrev.via = "none"
    /\ now >= thrLast.t + interval
    /\ lastCallTime = thrLast.t
    /\ ~timer.set
    /\ pendingArgs = NoArgs

\* C29: with an interval of 0 every call invokes fn in the step of the call
\* itself (hence in call order) with the call's own arguments, no wake is ever
\* set and no payload is ever pending.
C29_ZeroInterval ==
    /\ [](interval = 0 =>
             /\ ~timer.set
             /\ pendingArgs = NoArgs
             /\ thrLast.via \in {"none", "leading"}
             /\ thrRes.op = "call" => thrRes.invoked)
    /\ [][(interval = 0 /\ ThrCallStep) =>
             /\ thrRes'.invoked
             /\ thrLast' = [t |-> now, args |-> thrRes'.args, via |-> "leading"]
             /\ thrPrev' = thrLast
             /\ lastCallTime' = now]_vars

\* C29's case: with an interval of 0 two calls with different arguments were
\* made at the same clock value; both invoked fn, in that order.
C29_Witness ==
    /\ interval = 0
    /\ thrRes.op = "call"
    /\ thrRes.invoked
    /\ thrPrev.via = "leading"
    /\ thrLast.via = "leading"
    /\ thrPrev.t = thrLast.t
    /\ thrPrev.args # thrLast.args
    /\ thrLast.args = thrRes.args
    /\ now = thrLast.t

\* A step in which some caller's release callback ran.
SemReleaseStep == \E c \in Callers : releaseCalls'[c] = releaseCalls[c] + 1

\* C30: with every release callback invoked at most once, waiting() > 0 implies
\* active() = limit(), and the queue holds exactly the callers still waiting; a
\* release with a non-empty queue hands the permit to the head waiter (active()
\* unchanged, waiting() one less), a release with an empty queue lowers active()
\* by one, and nothing else ever lowers active() or shortens the queue.
C30_NoIdlePermitWhileWaiting ==
    /\ [](Len(queue) > 0 => activeCount = maxConcurrency)
    /\ []({queue[i] : i \in DOMAIN queue} = {c \in Callers : semPc[c] = "waiting"})
    /\ [][SemReleaseStep =>
             IF queue # <<>>
             THEN /\ activeCount' = activeCount
                  /\ queue' = Tail(queue)
                  /\ Len(queue') = Len(queue) - 1
                  /\ semPc[Head(queue)] = "waiting"
                  /\ semPc'[Head(queue)] = "granted"
             ELSE /\ activeCount' = activeCount - 1
                  /\ queue' = queue]_vars
    /\ [][(activeCount' < activeCount \/ Len(queue') < Len(queue)) => SemReleaseStep]_vars

\* C30's case: with a limit of 2, a release has handed its permit to the head
\* waiter, who holds it now, while a later caller still waits: both permits
\* are out.
C30_Witness ==
    /\ maxConcurrency = 2
    /\ activeCount = 2
    /\ Len(queue) = 1
    /\ \E c \in everQueued : semPc[c] = "granted" /\ \E d \in Callers : d > c /\ Head(queue) = d
    /\ \E c \in Callers : releaseCalls[c] = 1

\* The callers a step took out of the waiting position.
SemUnblocked == {c \in Callers : semPc[c] = "waiting" /\ semPc'[c] # "waiting"}

\* C31: if every granted permit is eventually released, every caller queued by
\* acquire() is eventually granted a permit; a waiter leaves the waiting position
\* only by being granted, and each release with a non-empty queue unblocks
\* exactly one waiter, the head of the queue.
C31_WaitersServed ==
    /\ \A c \in Callers :
          (semPc[c] = "waiting") ~> (semPc[c] \in {"granted", "running", "done"})
    /\ [][\A c \in SemUnblocked : semPc'[c] = "granted" /\ SemReleaseStep]_vars
    /\ [][(SemReleaseStep /\ queue # <<>>) => SemUnblocked = {Head(queue)}]_vars
    /\ [][(SemReleaseStep /\ queue = <<>>) => SemUnblocked = {}]_vars

\* C31's case: with a limit of 1 the last of the callers, queued behind two
\* other waiters, has been granted its permit and has given it back.
C31_Witness ==
    /\ maxConcurrency = 1
    /\ NumCallers \in everQueued
    /\ Cardinality(everQueued) = NumCallers - 1
    /\ semPc[NumCallers] = "done"
    /\ releaseCalls[NumCallers] = 1
    /\ activeCount = 0

\* C32: the head-index version and the array version are observationally
\* equivalent under a non-decreasing clock: every consume(), count() and reset()
\* returns the same result in both, the live part of the buffer (from head) is
\* the array version's log, head stays within the buffer, and a step that
\* prunes or compacts leaves exactly the pruned live part, in order, with at
\* most the new timestamp appended (and, when it does not compact, the buffer
\* itself untouched but for that timestamp).
C32_VersionsEquivalent ==
    /\ [](rlRes = rlResNaive)
    /\ [](rlLive = timestamps)
    /\ [](0 <= head /\ head <= Len(buf))
    /\ [][((buf' # buf \/ head' # head) /\ rlRes'.op # "reset") =>
             LET kept == pruneNaive(rlLive, now)
                 after == SubSeq(buf', head' + 1, Len(buf'))
             IN  /\ after \in {kept, Append(kept, now)}
                 /\ after = timestamps'
                 /\ (head' = 0 \/ buf' \in {buf, Append(buf, now)})]_vars

\* C32's case: since the last reset three events were accepted, the buffer has
\* been compacted (it is shorter than the accepted log and head is 0) and a
\* live timestamp has survived the compaction; the last operation was a
\* consume() that both versions denied.
C32_Witness ==
    /\ Len(rlAccepted) = 3
    /\ head = 0
    /\ Len(buf) > 0
    /\ Len(buf) < Len(rlAccepted)
    /\ buf = timestamps
    /\ rlRes.op = "consume"
    /\ ~rlRes.allowed
    /\ rlResNaive = rlRes

\* The keys stored in the cache m.
StoredKeys(m) == {m[i].key : i \in DOMAIN m}

\* The step removed or replaced the entry stored under k.
EntryGone(k) == ~mapHas(map', k) \/ mapGet(map', k) # mapGet(map, k)

\* C33: expiry is lazy.  size() and keys() count every stored entry, expired or
\* not; the passing of time removes nothing; an expired entry goes only when
\* get, has or delete names its key, on clear, when a set overwrites it or when
\* it is the first of keys() and a set of a new key into the full cache evicts
\* it; and such a set evicts the first of keys() whether or not it has expired,
\* every other entry, expired ones included, staying in place.
C33_LazyExpiry ==
    /\ [](size = Cardinality(StoredKeys(map)) /\ Len(keys) = size /\ size <= maxSize)
    /\ [][now' # now => map' = map]_vars
    /\ [][\A k \in StoredKeys(map) :
             (isExpired(mapGet(map, k)) /\ EntryGone(k)) =>
                 \/ lruRes'.op \in {"get", "has", "delete", "set"} /\ lruRes'.key = k
                 \/ lruRes'.op = "clear"
                 \/ /\ lruRes'.op = "set"
                    /\ ~mapHas(map, lruRes'.key)
                    /\ Len(map) = maxSize
                    /\ map[1].key = k]_vars
    /\ [][(LruStep("set") /\ ~mapHas(map, lruRes'.key) /\ Len(map) = maxSize) =>
             /\ ~mapHas(map', map[1].key)
             /\ Len(map') = maxSize
             /\ \A i \in 2..Len(map) : map'[i - 1] = map[i]
             /\ map'[maxSize].key = lruRes'.key]_vars

\* C33's case: a set of a new key into the full cache of two has just evicted an
\* entry that is still live, while the entry that stays beside the new one has
\* expired and still counts in size().
C33_Witness ==
    /\ maxSize = 2
    /\ size = 2
    /\ lruRes.op = "set"
    /\ ~lruRes.found
    /\ lruRef.victim.key # NoKey
    /\ lruRef.victim.exp > now
    /\ isExpired(map[1])
    /\ map[2].key = lruRes.key

\* C34: whatever calls are in flight and whenever reset() is called, a stored
\* state of closed implies 0 <= failures() < failureThreshold, and failures() is
\* 0 right after every transition into closed.
C34_ClosedBelowThreshold ==
    /\ [](state = "closed" => (0 <= failures /\ failures < failureThreshold))
    /\ [][(state # "closed" /\ state' = "closed") => failures' = 0]_vars
    /\ [][(cbRes' # cbRes /\ cbRes'.op = "reset") => (state' = "closed" /\ failures' = 0)]_vars

\* C34's case: with a threshold of 2 the breaker has been open and is closed
\* again; the fn of a call has just failed in closed, failures() is 1 and
\* another call is still in flight.
C34_Witness ==
    /\ failureThreshold = 2
    /\ state = "closed"
    /\ failures = 1
    /\ cbRes.op = "settle"
    /\ cbRes.outcome = "err"
    /\ cbRes.from = "closed"
    /\ cbOpenedClock > 0
    /\ \E s \in Slots : cbPc[s] = "inflight"

\* C35: openedAt is the clock time of the most recent transition into open from
\* closed or half-open, and while the breaker is open the settling of a call,
\* success or failure, leaves openedAt as it is.
C35_OpenedAtFixedWhileOpen ==
    [][(state = "open" /\ (CbSettleStep("ok") \/ CbSettleStep("err"))) =>
          openedAt' = openedAt]_vars

\* A step in which fn was invoked.
ThrInvoked == thrLast' # thrLast \/ thrPrev' # thrPrev

\* C36: the host never holds more than one wake of the throttle, and holds one
\* exactly while the timer variable is set; a payload is pending exactly while a
\* wake is scheduled; and every step that invokes fn (leading call, timer,
\* flush) and every cancel() leaves no wake and no payload.
C36_OneWakeIffPending ==
    /\ [](wakes \in {0, 1} /\ (wakes = 1) = timer.set)
    /\ []((pendingArgs # NoArgs) = timer.set)
    /\ [][(ThrInvoked \/ ThrCancelStep) =>
             (wakes' = 0 /\ ~timer'.set /\ pendingArgs' = NoArgs)]_vars
    /\ []((thrRes.invoked \/ thrRes.op \in {"timer", "flush", "cancel"}) =>
             (wakes = 0 /\ ~timer.set /\ pendingArgs = NoArgs))

\* C36's case: after a flush invoked fn and cleared the first wake, two more
\* suppressed calls came; one wake is scheduled for them and the payload of the
\* second is pending.
C36_Witness ==
    /\ thrLast.via = "flush"
    /\ thrRes.op = "call"
    /\ ~thrRes.invoked
    /\ thrRes.had # NoArgs
    /\ pendingArgs = thrRes.args
    /\ timer.set
    /\ wakes = 1

\* C37: with no cancel(), every suppressed call is eventually followed by an
\* invocation of fn, and whenever no wake is scheduled and a call has been made,
\* the most recent invocation of fn carried the most recent call's arguments;
\* while a wake is scheduled, the pending payload is the most recent call's.
C37_LatestArgsNotLost ==
    /\ (thrRes.op = "call" /\ ~thrRes.invoked) ~> thrRes.invoked
    /\ []((~timer.set /\ lastArgs # NoArgs) =>
             (thrLast.via # "none" /\ thrLast.args = lastArgs))
    /\ [](timer.set => pendingArgs = lastArgs)

\* C37's case: the wake has just invoked fn with the arguments of the last of two
\* suppressed calls, different from those of the leading invocation before it;
\* no wake is left.
C37_Witness ==
    /\ thrRes.op = "timer"
    /\ thrRes.invoked
    /\ thrPrev.via = "leading"
    /\ thrLast.via = "timer"
    /\ thrLast.args = lastArgs
    /\ thrLast.args # thrPrev.args
    /\ ~timer.set
    /\ wakes = 0

====
